---- MODULE Spec2Model ----
(***************************************************************************)
(* A model of docker-registry-util: the image digest cache                 *)
(* (docker_registry_util/cache.py) and the selection engine of the query   *)
(* (docker_registry_util/query.py).                                        *)
(*                                                                         *)
(* Python objects are modelled as follows.                                 *)
(*   dict        a function; its DOMAIN is the set of keys                 *)
(*   set         a set                                                     *)
(*   list/tuple  a sequence                                                *)
(*   str         a string; Chars gives its characters where code reads     *)
(*               them                                                      *)
(*   exception   the field exc of an operation's outcome ("none" when the  *)
(*               call returned)                                            *)
(***************************************************************************)
EXTENDS Integers, Sequences, FiniteSets, TLC

VARIABLES
    tagDigests,   \* ImageDigestCache._tag_digests: repo -> (tag -> digest)
    digestTags,   \* ImageDigestCache._digest_tags: digest -> set of <<repo, tag>>
    initialized,  \* DockerRegistryQuery._initialized
    last,         \* the call made last: its name, arguments, outcome and pre-state
    disciplined,  \* history: every call so far respected add_image's and
                  \* remove_digests' documented conditions of use
    calls         \* history: number of mutating calls made so far

vars == <<tagDigests, digestTags, initialized, last, disciplined, calls>>

(***************************************************************************)
(* Bounds of the model.                                                    *)
(***************************************************************************)
\* Mutating calls made on the cache in one behaviour of Spec.
MaxCalls == 4
\* Length of a list of digests passed to remove_digests.
MaxDigestList == 2
\* (repository, tag) pairs in an index drawn for a selection.
MaxPairs == 3
\* Length of a list of repository names passed to a selection.
MaxNames == 2

(***************************************************************************)
(* The universe: repository names, tags and digests.  RepoSeq and TagSeq   *)
(* list the names in Python's str order (sorted() and groupby() use it).   *)
(***************************************************************************)
RepoSeq == <<"a", "b", "c">>
TagSeq == <<"1.0", "1.1", "rc">>
DigestSeq == <<"D1", "D2">>

Range(s) == {s[i] : i \in DOMAIN s}

Repos == Range(RepoSeq)
Tags == Range(TagSeq)
Digests == Range(DigestSeq)

\* The elements of the set S, in the order of the sequence s.
RECURSIVE InOrderFrom(_, _, _)
InOrderFrom(s, S, i) ==
    IF i > Len(s) THEN <<>>
    ELSE (IF s[i] \in S THEN <<s[i]>> ELSE <<>>) \o InOrderFrom(s, S, i + 1)

InOrder(s, S) == InOrderFrom(s, S, 1)

\* All sequences over S of length 1..n.
SeqsUpTo(S, n) == UNION {[1..k -> S] : k \in 1..n}

Distinct(s) == \A i, j \in DOMAIN s : i # j => s[i] # s[j]

(***************************************************************************)
(* Python dict operations.                                                 *)
(***************************************************************************)
EmptyDict == [x \in {} |-> x]

DictSet(f, k, v) == [x \in (DOMAIN f) \cup {k} |-> IF x = k THEN v ELSE f[x]]

DictDel(f, k) == [x \in (DOMAIN f) \ {k} |-> f[x]]

\* dict.get(k) of a dict of dicts, None read as the empty dict where the code
\* only tests `if not ...`.
Values(f) == {f[k] : k \in DOMAIN f}

(***************************************************************************)
(* Outcome of a cache call: the two maps after it, what it returned and    *)
(* the exception it raised.                                                *)
(***************************************************************************)
Outcome(td, dt, ret, exc) == [td |-> td, dt |-> dt, ret |-> ret, exc |-> exc]

\* ImageDigestCache._discard_digest_tag, on the map digestTags.
DiscardDigestTag(dt, digest, repo, tag) ==
    IF digest \notin DOMAIN dt THEN dt
    ELSE LET tags == dt[digest] \ {<<repo, tag>>}
         IN  IF tags = {} THEN DictDel(dt, digest) ELSE DictSet(dt, digest, tags)

\* add_image that forgets the reverse map.
AddImageNoReverse(td, dt, repo, tag, digest) ==
    Outcome(DictSet(td, repo,
                DictSet(IF repo \in DOMAIN td THEN td[repo] ELSE EmptyDict, tag, digest)),
            dt, "None", "none")

\* ImageDigestCache.add_image: both maps are defaultdicts.
AddImageOp(td, dt, repo, tag, digest) ==
    Outcome(DictSet(td, repo,
                DictSet(IF repo \in DOMAIN td THEN td[repo] ELSE EmptyDict, tag, digest)),
            DictSet(dt, digest,
                (IF digest \in DOMAIN dt THEN dt[digest] ELSE {}) \cup {<<repo, tag>>}),
            "None", "none")

\* update_image that leaves the pair with the digest it pointed to.
UpdateImageKeepsStale(td, dt, repo, tag, digest) ==
    IF repo \in DOMAIN td /\ tag \in DOMAIN td[repo] /\ td[repo][tag] # digest
    THEN AddImageOp(td, dt, repo, tag, digest)
    ELSE IF repo \in DOMAIN td /\ tag \in DOMAIN td[repo]
    THEN Outcome(td, dt, "False", "none")
    ELSE Outcome(td, dt, "None", "none")

\* ImageDigestCache.update_image.
UpdateImageOp(td, dt, repo, tag, digest) ==
    IF repo \notin DOMAIN td
    THEN \* existing_tags is None: add_image, then None.get raises
         LET a == AddImageOp(td, dt, repo, tag, digest)
         IN  Outcome(a.td, a.dt, "None", "AttributeError")
    ELSE IF DOMAIN td[repo] = {}
    THEN \* existing_tags is the empty dict add_image then fills
         LET a == AddImageOp(td, dt, repo, tag, digest)
         IN  Outcome(a.td, a.dt, "False", "none")
    ELSE IF tag \notin DOMAIN td[repo]
    THEN Outcome(td, dt, "None", "none")
    ELSE IF td[repo][tag] = digest
    THEN Outcome(td, dt, "False", "none")
    ELSE LET dt1 == DiscardDigestTag(dt, td[repo][tag], repo, tag)
             dt2 == DictSet(dt1, digest,
                       (IF digest \in DOMAIN dt1 THEN dt1[digest] ELSE {})
                           \cup {<<repo, tag>>})
         IN  Outcome(DictSet(td, repo, DictSet(td[repo], tag, digest)), dt2,
                     "None", "none")

\* A loop that deletes the entry of each digest of the repository, with the
\* pairs other repositories have in it.
RECURSIVE RemoveRepoDigestsWhole(_, _, _)
RemoveRepoDigestsWhole(dt, name, ds) ==
    IF ds = <<>> THEN [dt |-> dt, exc |-> "none"]
    ELSE IF ds[1] \notin DOMAIN dt THEN [dt |-> dt, exc |-> "TypeError"]
    ELSE RemoveRepoDigestsWhole(DictDel(dt, ds[1]), name, Tail(ds))

\* The loop of remove_repository over the digests of the repository.
RECURSIVE RemoveRepoDigests(_, _, _)
RemoveRepoDigests(dt, name, ds) ==
    IF ds = <<>> THEN [dt |-> dt, exc |-> "none"]
    ELSE IF ds[1] \notin DOMAIN dt
    THEN \* existing_tags is None: iterating it raises
         [dt |-> dt, exc |-> "TypeError"]
    ELSE LET rest == {p \in dt[ds[1]] : p[1] # name}
         IN  RemoveRepoDigests(
                 IF rest = {} THEN DictDel(dt, ds[1]) ELSE DictSet(dt, ds[1], rest),
                 name, Tail(ds))

\* remove_repository that leaves the repository's entry in tagDigests.
RemoveRepositoryKeepsEntry(td, dt, name) ==
    IF name \notin DOMAIN td \/ DOMAIN td[name] = {}
    THEN Outcome(td, dt, "False", "none")
    ELSE LET r == RemoveRepoDigests(dt, name, InOrder(DigestSeq, Values(td[name])))
         IN  IF r.exc # "none" THEN Outcome(td, r.dt, "None", r.exc)
             ELSE Outcome(td, r.dt, "True", "none")

\* ImageDigestCache.remove_repository.
RemoveRepositoryOp(td, dt, name) ==
    IF name \notin DOMAIN td \/ DOMAIN td[name] = {}
    THEN Outcome(td, dt, "False", "none")
    ELSE LET r == RemoveRepoDigests(dt, name, InOrder(DigestSeq, Values(td[name])))
         IN  IF r.exc # "none" THEN Outcome(td, r.dt, "None", r.exc)
             ELSE Outcome(DictDel(td, name), r.dt, "True", "none")

\* remove_tag that leaves a repository without tags in tagDigests.
RemoveTagKeepsEmptyRepo(td, dt, repo, tag) ==
    IF repo \notin DOMAIN td \/ DOMAIN td[repo] = {}
    THEN Outcome(td, dt, "False", "none")
    ELSE IF tag \notin DOMAIN td[repo]
    THEN Outcome(td, dt, "False", "none")
    ELSE Outcome(DictSet(td, repo, DictDel(td[repo], tag)),
                 DiscardDigestTag(dt, td[repo][tag], repo, tag),
                 "True", "none")

\* ImageDigestCache.remove_tag.
RemoveTagOp(td, dt, repo, tag) ==
    IF repo \notin DOMAIN td \/ DOMAIN td[repo] = {}
    THEN Outcome(td, dt, "False", "none")
    ELSE IF tag \notin DOMAIN td[repo]
    THEN Outcome(td, dt, "False", "none")
    ELSE LET rd == DictDel(td[repo], tag)
         IN  Outcome(IF DOMAIN rd = {} THEN DictDel(td, repo) ELSE DictSet(td, repo, rd),
                     DiscardDigestTag(dt, td[repo][tag], repo, tag),
                     "True", "none")

\* The orders in which a set of digests may yield its elements.
DigestOrders == {s \in [1..Len(DigestSeq) -> Digests] : Range(s) = Digests}

\* The orders in which a set of pairs may yield the tags of a repository.
TagOrders == {s \in [1..Len(TagSeq) -> Tags] : Range(s) = Tags}

\* The tags of repository `repo` among the pairs of the digests ds, in the
\* order remove_digests meets them: chain order, sorted by repository
\* (stable); the pairs of one digest come in the iteration order of a set,
\* here the order ord.
RECURSIVE GroupTags(_, _, _, _)
GroupTags(dt, ds, repo, ord) ==
    IF ds = <<>> THEN <<>>
    ELSE InOrder(ord, {p[2] : p \in {q \in dt[ds[1]] : q[1] = repo}})
            \o GroupTags(dt, Tail(ds), repo, ord)

\* `del repo_digests[tag]` for each tag of a group; a missing tag raises.
RECURSIVE DelTags(_, _)
DelTags(rd, tags) ==
    IF tags = <<>> THEN [rd |-> rd, exc |-> "none"]
    ELSE IF tags[1] \notin DOMAIN rd THEN [rd |-> rd, exc |-> "KeyError"]
    ELSE DelTags(DictDel(rd, tags[1]), Tail(tags))

\* The first loop of remove_digests, over the repositories from RepoSeq[k] on.
RECURSIVE RemoveDigestRepos(_, _, _, _, _)
RemoveDigestRepos(td, dt, ds, ord, k) ==
    IF k > Len(RepoSeq) THEN [td |-> td, exc |-> "none"]
    ELSE LET repo == RepoSeq[k]
             tags == GroupTags(dt, ds, repo, ord)
         IN  IF tags = <<>> THEN RemoveDigestRepos(td, dt, ds, ord, k + 1)
             ELSE LET r == DelTags(IF repo \in DOMAIN td THEN td[repo] ELSE EmptyDict,
                                   tags)
                  IN  IF r.exc # "none"
                      THEN [td |-> DictSet(td, repo, r.rd), exc |-> r.exc]
                      ELSE RemoveDigestRepos(
                               IF DOMAIN r.rd = {} THEN DictDel(td, repo)
                               ELSE DictSet(td, repo, r.rd),
                               dt, ds, ord, k + 1)

\* A second loop that stops after the first digest.
DelDigestsFirstOnly(dt, ds) ==
    IF ds = <<>> THEN [dt |-> dt, exc |-> "none"]
    ELSE IF ds[1] \notin DOMAIN dt THEN [dt |-> dt, exc |-> "KeyError"]
    ELSE [dt |-> DictDel(dt, ds[1]), exc |-> "none"]

\* The second loop of remove_digests: `del self._digest_tags[digest]`.
RECURSIVE DelDigests(_, _)
DelDigests(dt, ds) ==
    IF ds = <<>> THEN [dt |-> dt, exc |-> "none"]
    ELSE IF ds[1] \notin DOMAIN dt THEN [dt |-> dt, exc |-> "KeyError"]
    ELSE DelDigests(DictDel(dt, ds[1]), Tail(ds))

\* remove_digests that removes digest by digest and so meets a digest
\* without entry only after it removed the ones before it.
RECURSIVE RemoveDigestsLazy(_, _, _, _)
RemoveDigestsLazy(td, dt, ds, ord) ==
    IF ds = <<>> THEN Outcome(td, dt, "None", "none")
    ELSE IF ds[1] \notin DOMAIN dt THEN Outcome(td, dt, "None", "TypeError")
    ELSE LET r == RemoveDigestRepos(td, dt, <<ds[1]>>, ord, 1)
         IN  IF r.exc # "none" THEN Outcome(r.td, dt, "None", r.exc)
             ELSE RemoveDigestsLazy(r.td, DictDel(dt, ds[1]), Tail(ds), ord)

\* ImageDigestCache.remove_digests.
RemoveDigestsOp(td, dt, ds, ord) ==
    IF \E i \in DOMAIN ds : ds[i] \notin DOMAIN dt
    THEN \* chaining None raises in sorted(), before any deletion
         Outcome(td, dt, "None", "TypeError")
    ELSE LET r == RemoveDigestRepos(td, dt, ds, ord, 1)
         IN  IF r.exc # "none" THEN Outcome(r.td, dt, "None", r.exc)
             ELSE LET s == DelDigests(dt, ds)
                  IN  Outcome(r.td, s.dt, "None", s.exc)

\* reset that clears the forward map only.
ResetForwardOnly(td, dt) == Outcome(EmptyDict, dt, "None", "none")

\* ImageDigestCache.reset.
ResetOp(td, dt) == Outcome(EmptyDict, EmptyDict, "None", "none")

(***************************************************************************)
(* The bidirectional invariant of the index.                               *)
(***************************************************************************)
\* (r, t) is in dt[d] exactly when td[r][t] = d.
Bidirectional(td, dt) ==
    /\ \A r \in DOMAIN td : \A t \in DOMAIN td[r] :
          td[r][t] \in DOMAIN dt /\ <<r, t>> \in dt[td[r][t]]
    /\ \A d \in DOMAIN dt : \A p \in dt[d] :
          p[1] \in DOMAIN td /\ p[2] \in DOMAIN td[p[1]] /\ td[p[1]][p[2]] = d

\* No repository without tags, no digest without pairs.
NoEmptyEntries(td, dt) ==
    /\ \A r \in DOMAIN td : DOMAIN td[r] # {}
    /\ \A d \in DOMAIN dt : dt[d] # {}

IndexInvariant(td, dt) == Bidirectional(td, dt) /\ NoEmptyEntries(td, dt)

(***************************************************************************)
(* Read accessors of the cache.                                            *)
(***************************************************************************)
\* ImageDigestCache.get_digests(repo), without a tag filter.
GetDigests(td, repo) == IF repo \in DOMAIN td THEN Values(td[repo]) ELSE {}

\* ImageDigestCache.get_digest_repos.
GetDigestRepos(dt, digest) ==
    IF digest \in DOMAIN dt THEN {p[1] : p \in dt[digest]} ELSE {}

\* ImageDigestCache.get_grouped_tags: the repositories of the groups, in
\* sorted order, and the tags of one group.
GroupedRepos(dt, digest) == InOrder(RepoSeq, GetDigestRepos(dt, digest))

\* The tags of a group, taken from every digest.
GroupedTagsAnyDigest(dt, digest, repo) ==
    {p[2] : p \in {q \in UNION {dt[d] : d \in DOMAIN dt} : q[1] = repo}}

GroupedTags(dt, digest, repo) ==
    IF digest \in DOMAIN dt THEN {p[2] : p \in {q \in dt[digest] : q[1] = repo}}
    ELSE {}

\* ImageDigestCache.get_digests(repo, tags): the digests of the tags of the
\* list that the repository has.
GetDigestsOfTags(td, repo, tags) ==
    IF repo \in DOMAIN td
    THEN {td[repo][t] : t \in Range(tags) \cap DOMAIN td[repo]}
    ELSE {}

\* ImageDigestCache.get_grouped_tags as a list of (repository, tags).
GroupedTagList(dt, digest) ==
    LET rs == GroupedRepos(dt, digest)
    IN  [i \in DOMAIN rs |-> <<rs[i], GroupedTags(dt, digest, rs[i])>>]

\* (repo, tag) for the tags of a repository, sorted.
TagNamesOf(td, repo) ==
    LET ts == InOrder(TagSeq, IF repo \in DOMAIN td THEN DOMAIN td[repo] ELSE {})
    IN  [i \in DOMAIN ts |-> <<repo, ts[i]>>]

RECURSIVE TagNames(_, _)
TagNames(td, repos) ==
    IF repos = <<>> THEN <<>> ELSE TagNamesOf(td, repos[1]) \o TagNames(td, Tail(repos))

\* ImageDigestCache.get_tag_names(repos), repos = <<>> for None and for the
\* empty list.  `self._tag_digests[repo]` on the defaultdict makes an empty
\* entry for a repository that has none.
CacheGetTagNames(td, dt, repos) ==
    IF repos # <<>>
    THEN Outcome([r \in DOMAIN td \cup Range(repos) |->
                     IF r \in DOMAIN td THEN td[r] ELSE EmptyDict],
                 dt, TagNames(td, repos), "none")
    ELSE Outcome(td, dt, TagNames(td, InOrder(RepoSeq, DOMAIN td)), "none")

\* ImageDigestCache.get_repo_names.
CacheGetRepoNames(td, dt) == Outcome(td, dt, InOrder(RepoSeq, DOMAIN td), "none")

(***************************************************************************)
(* Snapshots.  A digest is a string of bytes and its text is 'sha256:'     *)
(* followed by two hexadecimal digits per byte.  A decoded JSON document   *)
(* is a tree of values: an object holds `items`, a function of its keys,   *)
(* a string holds `chars`; the other kinds hold nothing that _load reads.  *)
(* The keys of an object come in sorted order.                             *)
(***************************************************************************)
\* The bytes of the digests of the universe: b'D1' and b'D2'.
DigestBytes(d) == IF d = "D1" THEN <<68, 49>> ELSE <<68, 50>>

HexDigits ==
    <<"0", "1", "2", "3", "4", "5", "6", "7", "8", "9", "a", "b", "c", "d", "e", "f">>

UpperHexDigits == <<"A", "B", "C", "D", "E", "F">>

\* _encode_hex_str that writes the low half of a byte first.
RECURSIVE EncodeHexLowFirst(_)
EncodeHexLowFirst(bytes) ==
    IF bytes = <<>> THEN <<>>
    ELSE <<HexDigits[(bytes[1] % 16) + 1], HexDigits[(bytes[1] \div 16) + 1]>>
            \o EncodeHexLowFirst(Tail(bytes))

\* _encode_hex_str: two lower-case hexadecimal digits per byte.
RECURSIVE EncodeHex(_)
EncodeHex(bytes) ==
    IF bytes = <<>> THEN <<>>
    ELSE <<HexDigits[(bytes[1] \div 16) + 1], HexDigits[(bytes[1] % 16) + 1]>>
            \o EncodeHex(Tail(bytes))

\* The value of a hexadecimal digit, -1 for another character.
HexVal(c) ==
    IF \E i \in DOMAIN HexDigits : HexDigits[i] = c
    THEN (CHOOSE i \in DOMAIN HexDigits : HexDigits[i] = c) - 1
    ELSE IF \E i \in DOMAIN UpperHexDigits : UpperHexDigits[i] = c
    THEN (CHOOSE i \in DOMAIN UpperHexDigits : UpperHexDigits[i] = c) + 9
    ELSE -1

\* _decode_hex: binascii.Error, a ValueError, on an odd length or on a
\* character that is no hexadecimal digit.
RECURSIVE DecodeHex(_)
DecodeHex(chars) ==
    IF chars = <<>> THEN [exc |-> "none", bytes |-> <<>>]
    ELSE IF Len(chars) = 1 \/ HexVal(chars[1]) < 0 \/ HexVal(chars[2]) < 0
    THEN [exc |-> "ValueError", bytes |-> <<>>]
    ELSE LET rest == DecodeHex(SubSeq(chars, 3, Len(chars)))
         IN  IF rest.exc # "none" THEN rest
             ELSE [exc |-> "none",
                   bytes |-> <<16 * HexVal(chars[1]) + HexVal(chars[2])>> \o rest.bytes]

Sha256Prefix == <<"s", "h", "a", "2", "5", "6", ":">>

\* ContentDigest.as_sha256.
AsSha256(bytes) == Sha256Prefix \o EncodeHex(bytes)

JObject(items) == [kind |-> "object", items |-> items, chars |-> <<>>]

JString(chars) == [kind |-> "string", items |-> <<>>, chars |-> chars]

\* A list, a number or null.
JOther(kind) == [kind |-> kind, items |-> <<>>, chars |-> <<>>]

\* ContentDigest.from_sha256(value) for a decoded JSON value.
FromSha256(value) ==
    IF value.kind \in {"number", "null"}
    THEN \* value[:7] of a value that cannot be sliced
         [exc |-> "TypeError", bytes |-> <<>>]
    ELSE IF value.kind # "string"
    THEN \* a slice of a list is not equal to 'sha256:'
         [exc |-> "ValueError", bytes |-> <<>>]
    ELSE IF SubSeq(value.chars, 1, IF Len(value.chars) < 7 THEN Len(value.chars) ELSE 7)
               # Sha256Prefix
    THEN [exc |-> "ValueError", bytes |-> <<>>]
    ELSE DecodeHex(SubSeq(value.chars, 8, Len(value.chars)))

\* ImageDigestCache._serialize: the document of the map tagDigests.
Serialize(td) ==
    JObject([r \in DOMAIN td |->
                JObject([t \in DOMAIN td[r] |-> JString(AsSha256(DigestBytes(td[r][t])))])])

\* The inner comprehension of _load: the tags of one repository, from
\* TagSeq[i] on.
RECURSIVE LoadTags(_, _)
LoadTags(tags, i) ==
    IF i > Len(TagSeq) THEN [exc |-> "none", rd |-> EmptyDict]
    ELSE IF TagSeq[i] \notin DOMAIN tags THEN LoadTags(tags, i + 1)
    ELSE LET d == FromSha256(tags[TagSeq[i]])
         IN  IF d.exc # "none" THEN [exc |-> d.exc, rd |-> EmptyDict]
             ELSE LET rest == LoadTags(tags, i + 1)
                  IN  IF rest.exc # "none" THEN rest
                      ELSE [exc |-> "none",
                            rd |-> [t \in DOMAIN rest.rd \cup {TagSeq[i]} |->
                                       IF t = TagSeq[i] THEN d.bytes ELSE rest.rd[t]]]

\* The outer comprehension of _load: the repositories from RepoSeq[k] on.
RECURSIVE LoadRepos(_, _)
LoadRepos(repos, k) ==
    IF k > Len(RepoSeq) THEN [exc |-> "none", td |-> EmptyDict]
    ELSE IF RepoSeq[k] \notin DOMAIN repos THEN LoadRepos(repos, k + 1)
    ELSE IF repos[RepoSeq[k]].kind # "object"
    THEN \* tags.items() of a value that is no dict
         [exc |-> "AttributeError", td |-> EmptyDict]
    ELSE LET rd == LoadTags(repos[RepoSeq[k]].items, 1)
         IN  IF rd.exc # "none" THEN [exc |-> rd.exc, td |-> EmptyDict]
             ELSE LET rest == LoadRepos(repos, k + 1)
                  IN  IF rest.exc # "none" THEN rest
                      ELSE [exc |-> "none",
                            td |-> [r \in DOMAIN rest.td \cup {RepoSeq[k]} |->
                                       IF r = RepoSeq[k] THEN rd.rd ELSE rest.td[r]]]

\* The map digest_tags that _load derives from the loaded tags.
DerivedDigestTags(td) ==
    [d \in UNION {Values(td[r]) : r \in DOMAIN td} |->
        {<<r, t>> \in Repos \X Tags :
            r \in DOMAIN td /\ t \in DOMAIN td[r] /\ td[r][t] = d}]

\* ImageDigestCache._load(tag_digests): the new instance, or the exception.
LoadOp(doc) ==
    IF doc.kind # "object"
    THEN [exc |-> "ValueError", td |-> EmptyDict, dt |-> EmptyDict]
    ELSE LET l == LoadRepos(doc.items, 1)
         IN  IF l.exc # "none" THEN [exc |-> l.exc, td |-> EmptyDict, dt |-> EmptyDict]
             ELSE [exc |-> "none", td |-> l.td, dt |-> DerivedDigestTags(l.td)]

(***************************************************************************)
(* Tag matcher.  A selector is a Python value: a str (kind "str") or a     *)
(* compiled pattern (kind "regex").  Chars gives the characters of the     *)
(* strings of the universe.                                                *)
(***************************************************************************)
Chars(s) ==
    CASE s = "1.0" -> <<"1", ".", "0">>
      [] s = "1.1" -> <<"1", ".", "1">>
      [] s = "rc" -> <<"r", "c">>
      [] s = ">=1.1" -> <<">", "=", "1", ".", "1">>
      [] s = "<1.1" -> <<"<", "1", ".", "1">>
      [] s = "==1.0" -> <<"=", "=", "1", ".", "0">>
      [] s = ".*" -> <<".", "*">>
      [] s = "r.*" -> <<"r", ".", "*">>
      [] s = "1" -> <<"1">>
      [] s = "1.01" -> <<"1", ".", "0", "1">>
      [] s = "1.1.0" -> <<"1", ".", "1", ".", "0">>
      [] s = "<=1.1" -> <<"<", "=", "1", ".", "1">>
      [] s = ">1.0" -> <<">", "1", ".", "0">>
      [] s = "=1.0" -> <<"=", "1", ".", "0">>

\* ord() of the characters in use.
CharCode(c) ==
    CASE c = "*" -> 42 [] c = "." -> 46 [] c = "0" -> 48 [] c = "1" -> 49
      [] c = "<" -> 60 [] c = "=" -> 61 [] c = ">" -> 62
      [] c = "c" -> 99 [] c = "r" -> 114

IsDigit(c) == c \in {"0", "1"}

IsLower(c) == c \in {"c", "r"}

\* The alternatives of LooseVersion.component_re: \d+, [a-z]+, \. and the
\* text between matches.
CharClass(c) ==
    IF IsDigit(c) THEN "digit"
    ELSE IF IsLower(c) THEN "lower"
    ELSE IF c = "." THEN "dot"
    ELSE "other"

SubSeqFrom(s, i) == SubSeq(s, i, Len(s))

\* End of the run of characters of one class that starts at s[i].
RECURSIVE RunEnd(_, _)
RunEnd(s, i) ==
    IF i < Len(s) /\ CharClass(s[i + 1]) = CharClass(s[i]) THEN RunEnd(s, i + 1) ELSE i

\* int() of a run of digits.
RECURSIVE IntOf(_)
IntOf(s) ==
    IF s = <<>> THEN 0
    ELSE 10 * IntOf(SubSeq(s, 1, Len(s) - 1)) + (CharCode(s[Len(s)]) - CharCode("0"))

IntToken(n) == [int |-> TRUE, n |-> n, s |-> <<>>]

StrToken(s) == [int |-> FALSE, n |-> 0, s |-> s]

\* LooseVersion.parse (distutils): the components of a version string.
RECURSIVE ParseVersion(_, _)
ParseVersion(s, i) ==
    IF i > Len(s) THEN <<>>
    ELSE LET j == RunEnd(s, i)
             run == SubSeq(s, i, j)
             cls == CharClass(s[i])
         IN  (CASE cls = "dot" -> <<>>
                [] cls = "digit" -> <<IntToken(IntOf(run))>>
                [] OTHER -> <<StrToken(run)>>)
             \o ParseVersion(s, j + 1)

LooseVersion(s) == ParseVersion(s, 1)

\* Python's str comparison: -1, 0 or 1.
RECURSIVE StrCmp(_, _, _)
StrCmp(a, b, i) ==
    IF i > Len(a) /\ i > Len(b) THEN 0
    ELSE IF i > Len(a) THEN -1
    ELSE IF i > Len(b) THEN 1
    ELSE IF CharCode(a[i]) < CharCode(b[i]) THEN -1
    ELSE IF CharCode(a[i]) > CharCode(b[i]) THEN 1
    ELSE StrCmp(a, b, i + 1)

Cmp(c) == [exc |-> FALSE, c |-> c]

CmpTypeError == [exc |-> TRUE, c |-> 0]

\* Python's list comparison: the first differing components decide, and
\* comparing an int with a str raises TypeError.
RECURSIVE ListCmp(_, _, _)
ListCmp(a, b, i) ==
    IF i > Len(a) /\ i > Len(b) THEN Cmp(0)
    ELSE IF i > Len(a) THEN Cmp(-1)
    ELSE IF i > Len(b) THEN Cmp(1)
    ELSE IF a[i] = b[i] THEN ListCmp(a, b, i + 1)
    ELSE IF a[i].int # b[i].int THEN CmpTypeError
    ELSE IF a[i].int THEN Cmp(IF a[i].n < b[i].n THEN -1 ELSE 1)
    ELSE Cmp(StrCmp(a[i].s, b[i].s, 1))

\* LooseVersion._cmp (distutils): self against the version of a str.
LooseVersionCmp(self, other) == ListCmp(self, LooseVersion(other), 1)

\* VERSION_REGEX.match: the operator and the version of '<op><version>', the
\* operator "" when the string does not match.
VersionMatch(s) ==
    IF Len(s) >= 3 /\ s[1] \in {"<", ">"} /\ s[2] = "="
    THEN [op |-> IF s[1] = "<" THEN "<=" ELSE ">=", version |-> SubSeqFrom(s, 3)]
    ELSE IF Len(s) >= 2 /\ s[1] \in {"<", ">"}
    THEN [op |-> s[1], version |-> SubSeqFrom(s, 2)]
    ELSE IF Len(s) >= 3 /\ s[1] = "=" /\ s[2] = "="
    THEN [op |-> "==", version |-> SubSeqFrom(s, 3)]
    ELSE [op |-> "", version |-> <<>>]

Returned(v) == [exc |-> FALSE, val |-> v]

RaisedTypeError == [exc |-> TRUE, val |-> FALSE]

IsPrefix(p, s) == Len(p) <= Len(s) /\ SubSeq(s, 1, Len(p)) = p

\* A compiled pattern's match(tag), for the patterns '<literal>.*'.
RegexMatch(pattern, tag) ==
    LET p == Chars(pattern)
    IN  IsPrefix(SubSeq(p, 1, Len(p) - 2), Chars(tag))

\* A predicate that compares the version strings as text.
TagFuncTextOrder(value, tag) ==
    IF value.kind = "regex" THEN Returned(RegexMatch(value.v, tag))
    ELSE LET vm == VersionMatch(Chars(value.v))
         IN  IF vm.op = "" THEN Returned(value.v = tag)
             ELSE LET c == StrCmp(vm.version, Chars(tag), 1)
                  IN  CASE vm.op = "==" -> Returned(c = 0)
                        [] vm.op = ">" -> Returned(c < 0)
                        [] vm.op = "<" -> Returned(c > 0)
                        [] vm.op = ">=" -> Returned(c <= 0)
                        [] vm.op = "<=" -> Returned(c >= 0)

\* _get_tag_func(value)(tag): the predicate of a selector, applied to a tag.
TagFunc(value, tag) ==
    IF value.kind = "regex" THEN Returned(RegexMatch(value.v, tag))
    ELSE LET vm == VersionMatch(Chars(value.v))
         IN  IF vm.op = "" THEN Returned(value.v = tag)
             ELSE LET c == LooseVersionCmp(LooseVersion(vm.version), Chars(tag))
                  IN  IF c.exc THEN RaisedTypeError
                      ELSE CASE vm.op = "==" -> Returned(c.c = 0)
                             [] vm.op = ">" -> Returned(c.c < 0)
                             [] vm.op = "<" -> Returned(c.c > 0)
                             [] vm.op = ">=" -> Returned(c.c <= 0)
                             [] vm.op = "<=" -> Returned(c.c >= 0)

\* _any_tag_matches that gives up at the first predicate that raises.
RECURSIVE AnyTagMatchesStopsAtError(_, _)
AnyTagMatchesStopsAtError(values, tag) ==
    IF values = <<>> THEN FALSE
    ELSE LET r == TagFunc(values[1], tag)
         IN  IF r.exc THEN FALSE
             ELSE IF r.val THEN TRUE ELSE AnyTagMatchesStopsAtError(Tail(values), tag)

\* _any_tag_matches(func_list, tag), func_list = _generate_tag_funcs(values).
RECURSIVE AnyTagMatches(_, _)
AnyTagMatches(values, tag) ==
    IF values = <<>> THEN FALSE
    ELSE LET r == TagFunc(values[1], tag)
         IN  IF ~r.exc /\ r.val THEN TRUE ELSE AnyTagMatches(Tail(values), tag)

StrSel(s) == [kind |-> "str", v |-> s]

RegexSel(s) == [kind |-> "regex", v |-> s]

(***************************************************************************)
(* Selection engine.  The outcome of a selection: the list it returned, or *)
(* the IntersectionError it raised with its conflicting_items and digest.  *)
(* items is "repos" for a set of repository names, "tags" for a set of     *)
(* tags, "repo" for one repository name (held as a singleton).             *)
(***************************************************************************)
Selected(ret) ==
    [exc |-> "none", ret |-> ret, items |-> "none", conflicting |-> {}, digest |-> "none"]

Intersection(items, conflicting, digest) ==
    [exc |-> "IntersectionError", ret |-> <<>>, items |-> items,
     conflicting |-> conflicting, digest |-> digest]

\* _complete_match that ignores raise_intersecting_repo.
RepoCompleteMatchNeverRaises(dt, nameList, raiseRepo, d) ==
    IF GetDigestRepos(dt, d) \ Range(nameList) = {} THEN "accept" ELSE "drop"

\* _complete_match that tests the flag only.
RepoCompleteMatchKeepsShared(dt, nameList, raiseRepo, d) ==
    IF GetDigestRepos(dt, d) \ Range(nameList) # {} /\ raiseRepo THEN "raise"
    ELSE "accept"

\* _complete_match of select_repositories: "accept", "drop" or "raise".
RepoCompleteMatch(dt, nameList, raiseRepo, d) ==
    LET external == GetDigestRepos(dt, d) \ Range(nameList)
    IN  IF external = {} THEN "accept"
        ELSE IF raiseRepo THEN "raise"
        ELSE "drop"

\* The list comprehension of select_repositories over the candidates
\* (name, digest), in order, with the set of digests tested so far.
RECURSIVE SelectRepoLoop(_, _, _, _, _, _)
SelectRepoLoop(dt, nameList, raiseRepo, cands, tested, acc) ==
    IF cands = <<>> THEN Selected(acc)
    ELSE LET d == cands[1][2]
         IN  IF d \in tested
             THEN SelectRepoLoop(dt, nameList, raiseRepo, Tail(cands), tested, acc)
             ELSE LET m == RepoCompleteMatch(dt, nameList, raiseRepo, d)
                  IN  IF m = "raise"
                      THEN Intersection("repos",
                                        GetDigestRepos(dt, d) \ Range(nameList), d)
                      ELSE SelectRepoLoop(dt, nameList, raiseRepo, Tail(cands),
                               tested \cup {d},
                               IF m = "accept" THEN Append(acc, cands[1]) ELSE acc)

\* The candidates with the names taken last first.
RECURSIVE RepoCandidatesLastFirst(_, _, _)
RepoCandidatesLastFirst(td, nameList, dord) ==
    IF nameList = <<>> THEN <<>>
    ELSE LET ds == InOrder(dord[nameList[1]], GetDigests(td, nameList[1]))
         IN  RepoCandidatesLastFirst(td, Tail(nameList), dord)
                \o [i \in 1..Len(ds) |-> <<nameList[1], ds[i]>>]

\* (name, digest) for name in name_list for digest in get_digests(name):
\* the digests of a repository come in the iteration order of a set, here
\* the order dord[name].
RECURSIVE RepoCandidates(_, _, _)
RepoCandidates(td, nameList, dord) ==
    IF nameList = <<>> THEN <<>>
    ELSE LET ds == InOrder(dord[nameList[1]], GetDigests(td, nameList[1]))
         IN  [i \in 1..Len(ds) |-> <<nameList[1], ds[i]>>]
                \o RepoCandidates(td, Tail(nameList), dord)

\* DockerRegistryQuery.select_repositories on an initialized query.
SelectRepositoriesOp(td, dt, names, raiseRepo, dord) ==
    SelectRepoLoop(dt, names, raiseRepo, RepoCandidates(td, names, dord), {}, <<>>)

\* Phase 1 of select_tags: the tags of a repository that match.
MatchedTags(td, repo, tags) ==
    IF repo \in DOMAIN td
    THEN {t \in DOMAIN td[repo] : AnyTagMatches(tags, t)}
    ELSE {}

\* tag_sets that holds every tag of a matching repository.
TagSetsAllTags(td, repos, tags) ==
    [r \in {x \in Range(repos) : MatchedTags(td, x, tags) # {}} |-> DOMAIN td[r]]

\* tag_sets: the repositories of repos with a matching tag, each with its
\* set of matching tags.
TagSets(td, repos, tags) ==
    [r \in {x \in Range(repos) : MatchedTags(td, x, tags) # {}} |->
        MatchedTags(td, r, tags)]

\* test_digests: (repo, tag, digest) for each repository of repos in order.
RECURSIVE TestDigests(_, _, _)
TestDigests(td, repos, tags) ==
    IF repos = <<>> THEN <<>>
    ELSE LET ts == InOrder(TagSeq, MatchedTags(td, repos[1], tags))
         IN  [i \in 1..Len(ts) |-> <<repos[1], ts[i], td[repos[1]][ts[i]]>>]
                \o TestDigests(td, Tail(repos), tags)

\* _group_digest: sorted by (repo, digest) and grouped, the tags of a group
\* in the order of test_digests.
GroupKeys(test) ==
    LET keys == {<<test[i][1], test[i][3]>> : i \in DOMAIN test}
        RECURSIVE Sorted(_, _)
        Sorted(r, d) ==
            IF r > Len(RepoSeq) THEN <<>>
            ELSE IF d > Len(DigestSeq) THEN Sorted(r + 1, 1)
            ELSE (IF <<RepoSeq[r], DigestSeq[d]>> \in keys
                  THEN <<<<RepoSeq[r], DigestSeq[d]>>>> ELSE <<>>)
                 \o Sorted(r, d + 1)
    IN  Sorted(1, 1)

\* A group that collects the tags of the repository whatever their digest.
RECURSIVE GroupTagListAnyDigest(_, _)
GroupTagListAnyDigest(test, key) ==
    IF test = <<>> THEN <<>>
    ELSE (IF test[1][1] = key[1] THEN <<test[1][2]>> ELSE <<>>)
            \o GroupTagListAnyDigest(Tail(test), key)

\* The tags of the group `key` = (repo, digest), in the order of test_digests.
RECURSIVE GroupTagList(_, _)
GroupTagList(test, key) ==
    IF test = <<>> THEN <<>>
    ELSE (IF <<test[1][1], test[1][3]>> = key THEN <<test[1][2]>> ELSE <<>>)
            \o GroupTagList(Tail(test), key)

GroupDigest(test) ==
    LET keys == GroupKeys(test)
    IN  [i \in 1..Len(keys) |-> <<keys[i][1], keys[i][2], GroupTagList(test, keys[i])>>]

AnyExcluded(exclude, current) == \E t \in current : AnyTagMatches(exclude, t)

\* _complete_match of select_tags over the groups of get_grouped_tags(d) from
\* position i on: what it does, and for a raise its conflicting items.
RECURSIVE TagCompleteMatch(_, _, _, _, _, _, _, _)
TagCompleteMatch(dt, tagSets, exclude, matchAll, raiseRepo, raiseTag, d, groups) ==
    IF groups = <<>> THEN [do |-> "accept", items |-> "none", conflicting |-> {}]
    ELSE LET repo == groups[1]
             current == GroupedTags(dt, d, repo)
         IN  IF repo \in DOMAIN tagSets
             THEN IF matchAll
                  THEN LET external == current \ tagSets[repo]
                       IN  IF external = {}
                           THEN IF AnyExcluded(exclude, current)
                                THEN [do |-> "drop", items |-> "none", conflicting |-> {}]
                                ELSE TagCompleteMatch(dt, tagSets, exclude, matchAll,
                                         raiseRepo, raiseTag, d, Tail(groups))
                           ELSE IF raiseTag
                           THEN [do |-> "raise", items |-> "tags", conflicting |-> external]
                           ELSE [do |-> "drop", items |-> "none", conflicting |-> {}]
                  ELSE \* `return not any(...)`: the first group decides
                       IF AnyExcluded(exclude, current)
                       THEN [do |-> "drop", items |-> "none", conflicting |-> {}]
                       ELSE [do |-> "accept", items |-> "none", conflicting |-> {}]
             ELSE IF raiseRepo
             THEN [do |-> "raise", items |-> "repo", conflicting |-> {repo}]
             ELSE [do |-> "drop", items |-> "none", conflicting |-> {}]

\* The list comprehension of select_tags over the grouped candidates.
RECURSIVE SelectTagLoop(_, _, _, _, _, _, _, _, _)
SelectTagLoop(dt, tagSets, exclude, matchAll, raiseRepo, raiseTag, cands, tested, acc) ==
    IF cands = <<>> THEN Selected(acc)
    ELSE LET d == cands[1][2]
         IN  IF d \in tested
             THEN SelectTagLoop(dt, tagSets, exclude, matchAll, raiseRepo, raiseTag,
                                Tail(cands), tested, acc)
             ELSE LET m == TagCompleteMatch(dt, tagSets, exclude, matchAll, raiseRepo,
                                            raiseTag, d, GroupedRepos(dt, d))
                  IN  IF m.do = "raise" THEN Intersection(m.items, m.conflicting, d)
                      ELSE SelectTagLoop(dt, tagSets, exclude, matchAll, raiseRepo,
                               raiseTag, Tail(cands), tested \cup {d},
                               IF m.do = "accept" THEN Append(acc, cands[1]) ELSE acc)

\* DockerRegistryQuery.select_tags on an initialized query.
SelectTagsOp(td, dt, repos, tags, exclude, matchAll, raiseRepo, raiseTag) ==
    SelectTagLoop(dt, TagSets(td, repos, tags), exclude, matchAll, raiseRepo, raiseTag,
                  GroupDigest(TestDigests(td, repos, tags)), {}, <<>>)

(***************************************************************************)
(* The cache as a state machine: any sequence of calls on an empty cache.  *)
(***************************************************************************)
NoCall == [op |-> "none"]

Init ==
    /\ tagDigests = EmptyDict
    /\ digestTags = EmptyDict
    /\ initialized = FALSE
    /\ last = NoCall
    /\ disciplined = TRUE
    /\ calls = 0

\* The effect of a cache call with outcome o.
Apply(o, call, ok) ==
    /\ calls < MaxCalls
    /\ tagDigests' = o.td
    /\ digestTags' = o.dt
    /\ last' = [op |-> call.op, args |-> call.args, ret |-> o.ret, exc |-> o.exc,
                preTd |-> tagDigests, preDt |-> digestTags,
                \* the call repeats the call before it, which returned `first`
                repeat |-> (last.op = call.op /\ last.args = call.args),
                first |-> IF last.op = call.op /\ last.args = call.args
                          THEN last.ret ELSE "none"]
    /\ disciplined' = (disciplined /\ ok)
    /\ calls' = calls + 1
    /\ UNCHANGED initialized

AddImage ==
    \E r \in Repos, t \in Tags, d \in Digests :
        Apply(AddImageOp(tagDigests, digestTags, r, t, d),
              [op |-> "add_image", args |-> <<r, t, d>>],
              \* not applied to a pair that points to another digest
              ~(r \in DOMAIN tagDigests /\ t \in DOMAIN tagDigests[r]
                  /\ tagDigests[r][t] # d))

UpdateImage ==
    \E r \in Repos, t \in Tags, d \in Digests :
        Apply(UpdateImageOp(tagDigests, digestTags, r, t, d),
              [op |-> "update_image", args |-> <<r, t, d>>], TRUE)

RemoveTag ==
    \E r \in Repos, t \in Tags :
        Apply(RemoveTagOp(tagDigests, digestTags, r, t),
              [op |-> "remove_tag", args |-> <<r, t>>], TRUE)

RemoveRepository ==
    \E r \in Repos :
        Apply(RemoveRepositoryOp(tagDigests, digestTags, r),
              [op |-> "remove_repository", args |-> <<r>>], TRUE)

RemoveDigests ==
    \E ds \in SeqsUpTo(Digests, MaxDigestList), ord \in TagOrders :
        Apply(RemoveDigestsOp(tagDigests, digestTags, ds, ord),
              [op |-> "remove_digests", args |-> <<ds>>],
              \* no digest named twice
              Distinct(ds))

Reset ==
    Apply(ResetOp(tagDigests, digestTags), [op |-> "reset", args |-> <<>>], TRUE)

\* ImageDigestCache.loads(cache.dumps()): a new instance, held in `ret`; the
\* cache itself is left as it is.
DumpsLoads ==
    Apply(Outcome(tagDigests, digestTags, LoadOp(Serialize(tagDigests)), "none"),
          [op |-> "dumps_loads", args |-> <<>>], TRUE)

Next ==
    \/ AddImage
    \/ UpdateImage
    \/ RemoveTag
    \/ RemoveRepository
    \/ RemoveDigests
    \/ Reset
    \/ DumpsLoads

Spec == Init /\ [][Next]_vars

(***************************************************************************)
(* The selections as functions of the index: the query holds an index      *)
(* built by add_image from a registry's (repository, tag, digest) triples  *)
(* (a completed refresh of a new query) and has _initialized set.  A       *)
(* selection reads the index and its arguments only, so that a behaviour   *)
(* makes one selection: a second one would add no case.                    *)
(***************************************************************************)
PairSeq ==
    [i \in 1..(Len(RepoSeq) * Len(TagSeq)) |->
        <<RepoSeq[((i - 1) \div Len(TagSeq)) + 1], TagSeq[((i - 1) % Len(TagSeq)) + 1]>>]

\* The tag-to-digest assignments of a registry: at most MaxPairs tags.
Registries ==
    UNION {[P -> Digests] : P \in {Q \in SUBSET Range(PairSeq) : Cardinality(Q) <= MaxPairs}}

\* The add_image calls of refresh, for the pairs of reg from PairSeq[i] on.
RECURSIVE AddImages(_, _, _, _)
AddImages(td, dt, reg, i) ==
    IF i > Len(PairSeq) THEN [td |-> td, dt |-> dt]
    ELSE IF PairSeq[i] \in DOMAIN reg
    THEN LET a == AddImageOp(td, dt, PairSeq[i][1], PairSeq[i][2], reg[PairSeq[i]])
         IN  AddImages(a.td, a.dt, reg, i + 1)
    ELSE AddImages(td, dt, reg, i + 1)

InitSelect ==
    \E reg \in Registries :
        /\ tagDigests = AddImages(EmptyDict, EmptyDict, reg, 1).td
        /\ digestTags = AddImages(EmptyDict, EmptyDict, reg, 1).dt
        /\ initialized = TRUE
        /\ last = NoCall
        /\ disciplined = TRUE
        /\ calls = 0

\* The lists of repository names a selection is called with.
NameLists == SeqsUpTo(Repos, MaxNames)

\* The tags and exclude_tags arguments select_tags is called with.
TagSelections ==
    {<<StrSel(">=1.1"), StrSel("rc")>>, <<RegexSel(".*")>>, <<StrSel("==1.0")>>}

ExcludeSelections == {<<>>, <<StrSel("rc")>>}

SelectRepositories ==
    /\ initialized
    /\ last = NoCall
    /\ \E names \in NameLists, raiseRepo \in BOOLEAN :
          \E dord \in [Range(names) -> DigestOrders] :
              last' = [op |-> "select_repositories", names |-> names,
                       raiseRepo |-> raiseRepo,
                       out |-> SelectRepositoriesOp(tagDigests, digestTags, names,
                                                    raiseRepo, dord)]
    /\ UNCHANGED <<tagDigests, digestTags, initialized, disciplined, calls>>

SelectTags ==
    /\ initialized
    /\ last = NoCall
    /\ \E repos \in NameLists, tags \in TagSelections, exclude \in ExcludeSelections,
          matchAll \in BOOLEAN, raiseRepo \in BOOLEAN, raiseTag \in BOOLEAN :
          last' = [op |-> "select_tags", repos |-> repos, tags |-> tags,
                   exclude |-> exclude, matchAll |-> matchAll,
                   raiseRepo |-> raiseRepo, raiseTag |-> raiseTag,
                   out |-> SelectTagsOp(tagDigests, digestTags, repos, tags, exclude,
                                        matchAll, raiseRepo, raiseTag)]
    /\ UNCHANGED <<tagDigests, digestTags, initialized, disciplined, calls>>

\* A read accessor of the cache, called with its outcome o.
Read(o, call) ==
    /\ last = NoCall
    /\ tagDigests' = o.td
    /\ digestTags' = o.dt
    /\ last' = [op |-> call.op, args |-> call.args, ret |-> o.ret, exc |-> o.exc,
                preTd |-> tagDigests, preDt |-> digestTags]
    /\ UNCHANGED <<initialized, disciplined, calls>>

ReadRepoNames ==
    Read(CacheGetRepoNames(tagDigests, digestTags), [op |-> "get_repo_names", args |-> <<>>])

ReadTagNames ==
    \E repos \in {<<>>} \cup NameLists :
        Read(CacheGetTagNames(tagDigests, digestTags, repos),
             [op |-> "get_tag_names", args |-> <<repos>>])

ReadDigests ==
    \E repo \in Repos :
        \/ Read(Outcome(tagDigests, digestTags, GetDigests(tagDigests, repo), "none"),
                [op |-> "get_digests", args |-> <<repo>>])
        \/ \E tags \in SeqsUpTo(Tags, MaxNames) :
              Read(Outcome(tagDigests, digestTags,
                           GetDigestsOfTags(tagDigests, repo, tags), "none"),
                   [op |-> "get_digests", args |-> <<repo, tags>>])

ReadDigestRepos ==
    \E digest \in Digests :
        Read(Outcome(tagDigests, digestTags, GetDigestRepos(digestTags, digest), "none"),
             [op |-> "get_digest_repos", args |-> <<digest>>])

ReadGroupedTags ==
    \E digest \in Digests :
        Read(Outcome(tagDigests, digestTags, GroupedTagList(digestTags, digest), "none"),
             [op |-> "get_grouped_tags", args |-> <<digest>>])

NextSelect ==
    \/ SelectRepositories
    \/ SelectTags
    \/ ReadRepoNames
    \/ ReadTagNames
    \/ ReadDigests
    \/ ReadDigestRepos
    \/ ReadGroupedTags

SpecSelect == InitSelect /\ [][NextSelect]_vars

(***************************************************************************)
(* The tag matcher as a function of a selector list and a tag: a behaviour *)
(* draws them and applies _any_tag_matches or the predicate of the first   *)
(* selector.                                                               *)
(***************************************************************************)
\* The longest selector list drawn.
MaxSelectors == 2

MatchSelectors ==
    {StrSel(s) : s \in {">=1.1", "<1.1", "==1.0", "<=1.1", ">1.0", "rc", "1.0", "=1.0"}}
        \cup {RegexSel(".*"), RegexSel("r.*")}

MatchTagNames == {"1", "1.0", "1.01", "1.1", "1.1.0", "rc"}

InitMatch ==
    /\ tagDigests = EmptyDict
    /\ digestTags = EmptyDict
    /\ initialized = FALSE
    /\ disciplined = TRUE
    /\ calls = 0
    /\ \E values \in SeqsUpTo(MatchSelectors, MaxSelectors), tag \in MatchTagNames :
          last = [op |-> "selectors", values |-> values, tag |-> tag]

AnyTagMatchesCall ==
    /\ last.op = "selectors"
    /\ last' = [op |-> "_any_tag_matches", values |-> last.values, tag |-> last.tag,
                ret |-> AnyTagMatches(last.values, last.tag)]
    /\ UNCHANGED <<tagDigests, digestTags, initialized, disciplined, calls>>

TagFuncCall ==
    /\ last.op = "selectors"
    /\ last' = [op |-> "_get_tag_func", value |-> last.values[1], tag |-> last.tag,
                out |-> TagFunc(last.values[1], last.tag)]
    /\ UNCHANGED <<tagDigests, digestTags, initialized, disciplined, calls>>

NextMatch ==
    \/ AnyTagMatchesCall
    \/ TagFuncCall

SpecMatch == InitMatch /\ [][NextMatch]_vars

(***************************************************************************)
(* SortingVersion, the comparator of version token lists that never        *)
(* raises.  A behaviour draws two version strings, parses them as the      *)
(* constructor does and compares them in both directions.                  *)
(***************************************************************************)
\* Longest version string drawn.
MaxVersionLen == 3

VersionChars == {"0", "1", "c", "r", "."}

VersionStrings == SeqsUpTo(VersionChars, MaxVersionLen) \ {<<>>}

\* A value _cmp returns: -1, 0, 1 or None.
CmpValue(c) == [none |-> FALSE, c |-> c]

CmpNone == [none |-> TRUE, c |-> 0]

\* The loop over zip_longest in which a str and an int compare as equal
\* ranks.
RECURSIVE ZipCmpMixedEqual(_, _, _)
ZipCmpMixedEqual(a, b, i) ==
    IF i > Len(a) /\ i > Len(b) THEN CmpValue(0)
    ELSE IF i > Len(a) THEN CmpValue(-1)
    ELSE IF i > Len(b) THEN CmpValue(1)
    ELSE IF a[i] = b[i] \/ a[i].int # b[i].int THEN ZipCmpMixedEqual(a, b, i + 1)
    ELSE IF a[i].int THEN CmpValue(IF a[i].n < b[i].n THEN -1 ELSE 1)
    ELSE CmpValue(StrCmp(a[i].s, b[i].s, 1))

\* The loop of SortingVersion._cmp over zip_longest(self.version,
\* other.version) from position i on; a list that has ended gives None.
RECURSIVE ZipCmp(_, _, _)
ZipCmp(a, b, i) ==
    IF i > Len(a) /\ i > Len(b) THEN CmpNone
    ELSE LET aNone == i > Len(a)
             bNone == i > Len(b)
         IN  IF ~aNone /\ ~bNone /\ a[i] = b[i] THEN ZipCmp(a, b, i + 1)
             ELSE IF ~aNone /\ ~bNone /\ a[i].int = b[i].int
             THEN IF a[i].int
                  THEN CmpValue(IF a[i].n < b[i].n THEN -1 ELSE 1)
                  ELSE CmpValue(StrCmp(a[i].s, b[i].s, 1))
             ELSE IF ~aNone /\ ~a[i].int THEN CmpValue(1)
             ELSE IF ~bNone /\ ~b[i].int THEN CmpValue(-1)
             ELSE IF aNone THEN CmpValue(-1)
             ELSE CmpValue(1)

\* SortingVersion._cmp(self, other) on the token lists of the two versions.
SortingVersionCmp(self, other) ==
    IF self = other THEN CmpValue(0)
    ELSE LET c == ListCmp(self, other, 1)
         IN  IF c.exc THEN ZipCmp(self, other, 1)
             ELSE IF c.c < 0 THEN CmpValue(-1)
             ELSE IF c.c > 0 THEN CmpValue(1)
             ELSE CmpNone

InitVersion ==
    /\ tagDigests = EmptyDict
    /\ digestTags = EmptyDict
    /\ initialized = FALSE
    /\ disciplined = TRUE
    /\ calls = 0
    /\ \E a \in VersionStrings, b \in VersionStrings :
          last = [op |-> "versions", a |-> a, b |-> b]

SortingVersionCall ==
    /\ last.op = "versions"
    /\ \E self \in {LooseVersion(last.a)}, other \in {LooseVersion(last.b)} :
          last' = [op |-> "_cmp", a |-> last.a, b |-> last.b,
                   self |-> self, other |-> other,
                   ret |-> SortingVersionCmp(self, other),
                   rev |-> SortingVersionCmp(other, self)]
    /\ UNCHANGED <<tagDigests, digestTags, initialized, disciplined, calls>>

NextVersion == SortingVersionCall

SpecVersion == InitVersion /\ [][NextVersion]_vars

(***************************************************************************)
(* The query and the remover as a state machine: calls on a new query,     *)
(* whose index is empty and whose _initialized is unset.  The registry is  *)
(* not state of the program and may change between two calls, so that each *)
(* call draws what the registry answers during that call:                  *)
(*   reg        - the digest of every (repository, tag) pair it lists;     *)
(*   noManifest - the pairs whose head_manifest fails with an HTTPError;   *)
(*   failing    - the request that fails otherwise: "catalog", or the      *)
(*                repository whose get_tags fails, or "none".              *)
(* The catalog names every repository of RepoSeq, some without tags.       *)
(***************************************************************************)
\* The number of calls in a behaviour.
MaxQueryCalls == 2

\* The pairs a registry may list.
QueryPairs == {<<"a", "1.0">>, <<"a", "1.1">>, <<"b", "1.0">>}

Envs ==
    UNION {{[reg |-> reg, noManifest |-> nm, failing |-> f] :
               nm \in {{}} \cup {{p} : p \in DOMAIN reg},
               f \in {"none", "catalog", "a", "b"}} :
           reg \in UNION {[P -> Digests] : P \in SUBSET QueryPairs}}

\* A call that made no request.
NoEnv == [reg |-> EmptyDict, noManifest |-> {}, failing |-> "none"]

\* get_tags(repo).json()['tags']: the tags listed for a repository.
ListedTags(env, repo) == InOrder(TagSeq, {t \in Tags : <<repo, t>> \in DOMAIN env.reg})

\* The digest of the universe that has the given bytes.
DigestOf(bytes) == CHOOSE d \in Digests : DigestBytes(d) = bytes

\* ContentDigest.from_sha256 of the header Docker-Content-Digest.
ManifestDigest(env, repo, tag) ==
    DigestOf(FromSha256(JString(AsSha256(DigestBytes(env.reg[<<repo, tag>>])))).bytes)

QOutcome(td, dt, init, ret, exc) ==
    [td |-> td, dt |-> dt, init |-> init, ret |-> ret, exc |-> exc]

\* The loop of refresh over the tags of one repository.
RECURSIVE RefreshTags(_, _, _, _, _)
RefreshTags(td, dt, env, repo, tags) ==
    IF tags = <<>> THEN [td |-> td, dt |-> dt]
    ELSE IF <<repo, tags[1]>> \in env.noManifest
    THEN \* HTTPError: the tag is skipped
         RefreshTags(td, dt, env, repo, Tail(tags))
    ELSE LET a == AddImageOp(td, dt, repo, tags[1], ManifestDigest(env, repo, tags[1]))
         IN  RefreshTags(a.td, a.dt, env, repo, Tail(tags))

\* The loop of refresh over the catalog, from RepoSeq[k] on.
RECURSIVE RefreshRepos(_, _, _, _)
RefreshRepos(td, dt, env, k) ==
    IF k > Len(RepoSeq) THEN [td |-> td, dt |-> dt, exc |-> "none"]
    ELSE IF env.failing = RepoSeq[k] THEN [td |-> td, dt |-> dt, exc |-> "HTTPError"]
    ELSE IF ListedTags(env, RepoSeq[k]) = <<>> THEN RefreshRepos(td, dt, env, k + 1)
    ELSE LET r == RefreshTags(td, dt, env, RepoSeq[k], ListedTags(env, RepoSeq[k]))
         IN  RefreshRepos(r.td, r.dt, env, k + 1)

\* DockerRegistryQuery.refresh.
RefreshOp(td, dt, init, env) ==
    LET td0 == IF init THEN EmptyDict ELSE td
        dt0 == IF init THEN EmptyDict ELSE dt
    IN  IF env.failing = "catalog" THEN QOutcome(td0, dt0, init, "None", "HTTPError")
        ELSE LET r == RefreshRepos(td0, dt0, env, 1)
             IN  QOutcome(r.td, r.dt, init \/ r.exc = "none", "None", r.exc)

\* The loop of update over the tags listed for one repository.
RECURSIVE UpdateTags(_, _, _, _, _, _)
UpdateTags(td, dt, env, repo, sel, tags) ==
    IF tags = <<>> THEN [td |-> td, dt |-> dt, exc |-> "none"]
    ELSE IF ~AnyTagMatches(sel, tags[1]) THEN UpdateTags(td, dt, env, repo, sel, Tail(tags))
    ELSE IF <<repo, tags[1]>> \in env.noManifest
    THEN UpdateTags(td, dt, env, repo, sel, Tail(tags))
    ELSE LET u == UpdateImageOp(td, dt, repo, tags[1], ManifestDigest(env, repo, tags[1]))
         IN  IF u.exc # "none" THEN [td |-> u.td, dt |-> u.dt, exc |-> u.exc]
             ELSE UpdateTags(u.td, u.dt, env, repo, sel, Tail(tags))

\* The loop of update over the repositories it is given.
RECURSIVE UpdateRepos(_, _, _, _, _)
UpdateRepos(td, dt, env, repos, sel) ==
    IF repos = <<>> THEN [td |-> td, dt |-> dt, exc |-> "none"]
    ELSE IF env.failing = repos[1] THEN [td |-> td, dt |-> dt, exc |-> "HTTPError"]
    ELSE IF ListedTags(env, repos[1]) = <<>> THEN UpdateRepos(td, dt, env, Tail(repos), sel)
    ELSE LET r == UpdateTags(td, dt, env, repos[1], sel, ListedTags(env, repos[1]))
         IN  IF r.exc # "none" THEN r
             ELSE UpdateRepos(r.td, r.dt, env, Tail(repos), sel)

\* DockerRegistryQuery.update(repos, tags).
UpdateOp(td, dt, init, env, repos, sel) ==
    LET r == UpdateRepos(td, dt, env, repos, sel)
    IN  QOutcome(r.td, r.dt, init, "None", r.exc)

\* The index that holds the loaded digests.
LoadedIndex(l) ==
    [td |-> [r \in DOMAIN l.td |-> [t \in DOMAIN l.td[r] |-> DigestOf(l.td[r][t])]],
     dt |-> [d \in {DigestOf(b) : b \in DOMAIN l.dt} |-> l.dt[DigestBytes(d)]]]

\* DockerRegistryQuery.loads(s), s the text of the document doc.
LoadsOp(td, dt, init, doc) ==
    LET l == LoadOp(doc)
    IN  IF l.exc # "none" THEN QOutcome(td, dt, init, "None", l.exc)
        ELSE QOutcome(LoadedIndex(l).td, LoadedIndex(l).dt, TRUE, "None", "none")

\* `if not self._initialized: self.refresh()`, the first step of a selection
\* and of the name lists.
LazyRefresh(td, dt, init, env) ==
    IF init THEN QOutcome(td, dt, init, "None", "none") ELSE RefreshOp(td, dt, init, env)

\* The delete_manifest calls of the remover, one for each selected entry:
\* the repository and the text of the digest.
Deletes(sel) == [i \in DOMAIN sel |-> <<sel[i][1], AsSha256(DigestBytes(sel[i][2]))>>]

\* `[i[1] for i in ...]`.
DigestsOnly(sel) == [i \in DOMAIN sel |-> sel[i][2]]

\* What a remover call did besides its outcome: the index its selection was
\* made on, the selection, and the delete_manifest calls it issued.
RemoverInfo(td, dt, sel, deleted) == [td |-> td, dt |-> dt, sel |-> sel, deleted |-> deleted]

NoInfo == RemoverInfo(EmptyDict, EmptyDict, <<>>, <<>>)

ROutcome(o, info) == [out |-> o, info |-> info]

\* The end of a remover call whose delete_manifest calls `deleted` returned:
\* r is the outcome of remove_digests, and the selection is returned.
Removed(f, s, r, deleted) ==
    ROutcome(QOutcome(r.td, r.dt, f.init, IF r.exc = "none" THEN s.ret ELSE "None", r.exc),
             RemoverInfo(f.td, f.dt, s.ret, deleted))

\* remove_repositories that checks for conflicts as it deletes: the digest of
\* a conflict is deleted and removed from the index before the error is
\* raised.
RemoveRepositoriesChecksLate(f, s, failAt, ord) ==
    IF f.exc # "none" THEN ROutcome(f, NoInfo)
    ELSE IF s.exc = "IntersectionError"
    THEN LET r == RemoveDigestsOp(f.td, f.dt, <<s.digest>>, ord)
         IN  ROutcome(QOutcome(r.td, r.dt, f.init, "None", s.exc),
                      RemoverInfo(f.td, f.dt, <<>>,
                                  <<<<"a", AsSha256(DigestBytes(s.digest))>>>>))
    ELSE IF s.exc # "none"
    THEN ROutcome(QOutcome(f.td, f.dt, f.init, "None", s.exc), NoInfo)
    ELSE Removed(f, s, RemoveDigestsOp(f.td, f.dt, DigestsOnly(s.ret), ord),
                 Deletes(s.ret))

\* remove_repositories that removes each digest from the index as soon as
\* its manifest is deleted.
RemoveRepositoriesAsDeleted(f, s, failAt, ord) ==
    IF f.exc # "none" THEN ROutcome(f, NoInfo)
    ELSE IF s.exc # "none"
    THEN ROutcome(QOutcome(f.td, f.dt, f.init, "None", s.exc), NoInfo)
    ELSE IF failAt \in 1..Len(s.ret)
    THEN LET done == SubSeq(s.ret, 1, failAt - 1)
             r == RemoveDigestsOp(f.td, f.dt, DigestsOnly(done), ord)
         IN  ROutcome(QOutcome(r.td, r.dt, f.init, "None", "HTTPError"),
                      RemoverInfo(f.td, f.dt, s.ret, Deletes(done)))
    ELSE Removed(f, s, RemoveDigestsOp(f.td, f.dt, DigestsOnly(s.ret), ord),
                 Deletes(s.ret))

\* DockerRegistryRemover.remove_repositories(names, raise_intersecting_repo):
\* f is the outcome of the refresh the selection makes first on a query that
\* is not initialized, s the outcome of select_repositories on that index.
\* The delete_manifest call number failAt raises, if there are that many.
RemoveRepositoriesOp(f, s, failAt, ord) ==
    IF f.exc # "none" THEN ROutcome(f, NoInfo)
    ELSE IF s.exc # "none"
    THEN ROutcome(QOutcome(f.td, f.dt, f.init, "None", s.exc), NoInfo)
    ELSE IF failAt \in 1..Len(s.ret)
    THEN \* the calls before that one have returned
         ROutcome(QOutcome(f.td, f.dt, f.init, "None", "HTTPError"),
                  RemoverInfo(f.td, f.dt, s.ret, SubSeq(Deletes(s.ret), 1, failAt - 1)))
    ELSE Removed(f, s, RemoveDigestsOp(f.td, f.dt, DigestsOnly(s.ret), ord),
                 Deletes(s.ret))

\* DockerRegistryRemover.remove_tags(repos, tags): f is the outcome of the
\* refresh the selection makes first on a query that is not initialized, s
\* the outcome of select_tags on that index.
RemoveTagsOp(f, s, ord) ==
    IF f.exc # "none" THEN ROutcome(f, NoInfo)
    ELSE IF s.exc # "none"
    THEN ROutcome(QOutcome(f.td, f.dt, f.init, "None", s.exc), NoInfo)
    ELSE IF s.ret # <<>>
    THEN \* `for name, digest in tag_digests` unpacks an entry of three
         ROutcome(QOutcome(f.td, f.dt, f.init, "None", "ValueError"),
                  RemoverInfo(f.td, f.dt, s.ret, <<>>))
    ELSE Removed(f, s, RemoveDigestsOp(f.td, f.dt, <<>>, ord), <<>>)

\* DockerRegistryQuery.get_repo_names: the sorted keys of tag_digests.
GetRepoNamesOp(td, dt, init, env) ==
    LET f == LazyRefresh(td, dt, init, env)
    IN  IF f.exc # "none" THEN f
        ELSE QOutcome(f.td, f.dt, f.init, InOrder(RepoSeq, DOMAIN f.td), "none")

\* DockerRegistryQuery.get_tag_names(repos): the call of the cache's
\* get_tag_names with two arguments more than it takes.
GetTagNamesOp(td, dt, init, env, repos) ==
    LET f == LazyRefresh(td, dt, init, env)
    IN  IF f.exc # "none" THEN f
        ELSE QOutcome(f.td, f.dt, f.init, "None", "TypeError")

InitQuery ==
    /\ tagDigests = EmptyDict
    /\ digestTags = EmptyDict
    /\ initialized = FALSE
    /\ last = NoCall
    /\ disciplined = TRUE
    /\ calls = 0

\* What the registry answers to a call that asks it only when the query
\* is not initialized.
LazyEnvs == IF initialized THEN {NoEnv} ELSE Envs

\* The orders in which a set of pairs may yield the tags of QueryPairs:
\* "rc" never enters the index of the query.
QueryTagOrders == {ord \in TagOrders : ord[Len(TagSeq)] = "rc"}

\* The effect of a call on the query or on the remover with outcome o.
\* `last` describes the call that ends the behaviour; the calls before it
\* bring the query to the state that call is made in.
QApply(o, info, call, env) ==
    /\ tagDigests' = o.td
    /\ digestTags' = o.dt
    /\ initialized' = o.init
    /\ last' = IF calls + 1 < MaxQueryCalls THEN NoCall
               ELSE [op |-> call.op, args |-> call.args, env |-> env,
                     ret |-> o.ret, exc |-> o.exc, info |-> info,
                     preTd |-> tagDigests, preDt |-> digestTags,
                     preInit |-> initialized]
    /\ calls' = calls + 1
    /\ UNCHANGED disciplined

Refresh ==
    /\ calls < MaxQueryCalls
    /\ \E env \in Envs :
           QApply(RefreshOp(tagDigests, digestTags, initialized, env), NoInfo,
                  [op |-> "refresh", args |-> <<>>], env)

\* The lists of repositories and the selectors update and remove_tags are
\* called with.
QueryNameLists == {<<"a">>, <<"b">>, <<"a", "b">>, <<"b", "a">>}

QuerySelections == {<<RegexSel(".*")>>, <<StrSel("==1.0")>>}

Update ==
    /\ calls < MaxQueryCalls
    /\ \E env \in Envs, repos \in QueryNameLists, tags \in QuerySelections :
           /\ env.failing # "catalog"
           /\ QApply(UpdateOp(tagDigests, digestTags, initialized, env, repos, tags), NoInfo,
                     [op |-> "update", args |-> <<repos, tags>>], env)

\* The documents loads is given: the snapshots of three indexes, a document
\* with a repository without tags, and documents that are no snapshot.
Snapshots ==
    LET x == JString(<<"x">>)
        d1 == JString(AsSha256(DigestBytes("D1")))
        tagsOf(v) == JObject([t \in {"1.0"} |-> v])
        doc(v) == JObject([r \in {"a", "b"} |-> IF r = "a" THEN tagsOf(d1) ELSE v])
    IN  {Serialize(EmptyDict),
         Serialize([r \in {"a"} |-> [t \in {"1.0"} |-> "D1"]]),
         Serialize([r \in {"a", "b"} |-> [t \in {"1.0"} |-> IF r = "a" THEN "D1" ELSE "D2"]]),
         doc(JObject(EmptyDict)),
         JOther("list"), JOther("number"), JOther("null"), x,
         doc(x), doc(JOther("number")), doc(JOther("list")), doc(JOther("null")),
         doc(tagsOf(JString(<<"s", "h", "a", "5", "1", "2", ":", "4", "4", "3", "1">>))),
         doc(tagsOf(JString(<<"s", "h", "a", "2", "5", "6">>))),
         doc(tagsOf(JString(<<"S", "H", "A", "2", "5", "6", ":", "4", "4", "3", "1">>))),
         doc(tagsOf(JString(<<"s", "h", "a", "2", "5", "6", ":", "4", "4", "3">>))),
         doc(tagsOf(JOther("number"))), doc(tagsOf(JOther("null"))),
         doc(tagsOf(JOther("list")))}

Loads ==
    /\ calls < MaxQueryCalls
    /\ \E doc \in Snapshots :
           QApply(LoadsOp(tagDigests, digestTags, initialized, doc), NoInfo,
                  [op |-> "loads", args |-> <<doc>>], NoEnv)

RemoveRepositories ==
    /\ calls < MaxQueryCalls
    /\ \E env \in LazyEnvs, names \in QueryNameLists, raiseRepo \in BOOLEAN,
          failAt \in 0..Len(DigestSeq), ord \in QueryTagOrders :
         \E dord \in [Range(names) -> DigestOrders] :
         \E f \in {LazyRefresh(tagDigests, digestTags, initialized, env)} :
         \E s \in {SelectRepositoriesOp(f.td, f.dt, names, raiseRepo, dord)} :
         \E r \in {RemoveRepositoriesOp(f, s, failAt, ord)} :
             QApply(r.out, r.info,
                    [op |-> "remove_repositories",
                     args |-> <<names, raiseRepo,
                                IF failAt \in 1..Len(r.info.sel) THEN failAt ELSE 0>>],
                    env)

\* The other arguments of select_tags are at their defaults.
RemoveTags ==
    /\ calls < MaxQueryCalls
    /\ \E env \in LazyEnvs, repos \in QueryNameLists, tags \in QuerySelections,
          ord \in QueryTagOrders :
         \E f \in {LazyRefresh(tagDigests, digestTags, initialized, env)} :
         \E s \in {SelectTagsOp(f.td, f.dt, repos, tags, <<>>, TRUE, TRUE, FALSE)} :
         \E r \in {RemoveTagsOp(f, s, ord)} :
             QApply(r.out, r.info, [op |-> "remove_tags", args |-> <<repos, tags>>], env)

GetRepoNames ==
    /\ calls < MaxQueryCalls
    /\ \E env \in LazyEnvs :
           QApply(GetRepoNamesOp(tagDigests, digestTags, initialized, env), NoInfo,
                  [op |-> "get_repo_names", args |-> <<>>], env)

GetTagNames ==
    /\ calls < MaxQueryCalls
    /\ \E env \in LazyEnvs, repos \in {<<>>} \cup QueryNameLists :
           QApply(GetTagNamesOp(tagDigests, digestTags, initialized, env, repos), NoInfo,
                  [op |-> "get_tag_names", args |-> <<repos>>], env)

NextQuery ==
    \/ Refresh
    \/ Update
    \/ Loads
    \/ RemoveRepositories
    \/ RemoveTags
    \/ GetRepoNames
    \/ GetTagNames

SpecQuery == InitQuery /\ [][NextQuery]_vars

(***************************************************************************)
(* Properties.  What a property says of the index it says of tagDigests,   *)
(* the map the index is serialized from: a repository references a digest  *)
(* when one of its tags points to it.                                      *)
(***************************************************************************)
Referencing(d) ==
    {r \in DOMAIN tagDigests : \E t \in DOMAIN tagDigests[r] : tagDigests[r][t] = d}

TagsOn(r, d) ==
    IF r \in DOMAIN tagDigests
    THEN {t \in DOMAIN tagDigests[r] : tagDigests[r][t] = d}
    ELSE {}

DigestsOf(r) ==
    IF r \in DOMAIN tagDigests
    THEN {tagDigests[r][t] : t \in DOMAIN tagDigests[r]}
    ELSE {}

\* The digests of the entries a selection returned.
ReturnedDigests == {last.out.ret[i][2] : i \in DOMAIN last.out.ret}

\* The first position of x in the sequence s.
FirstIndex(s, x) == CHOOSE i \in DOMAIN s : s[i] = x /\ \A j \in 1..(i - 1) : s[j] # x

\* C1 as stated: after every call of any sequence of calls on an empty
\* index, (r, t) is in digestTags[d] iff tagDigests[r][t] = d, and neither map
\* holds an empty entry.
C1_AnySequenceKeepsInvariant == IndexInvariant(tagDigests, digestTags)

\* C1 as amended: the same after every call of a sequence in which add_image
\* is never applied to a pair that points to another digest and
\* remove_digests never receives a digest twice.
C1_DisciplinedKeepsInvariant == disciplined => IndexInvariant(tagDigests, digestTags)

\* A disciplined sequence of add_image, update_image and a removal that left
\* a shared digest in place.
C1_Witness ==
    /\ disciplined
    /\ calls = MaxCalls
    /\ last.op \in {"remove_tag", "remove_repository", "remove_digests"}
    /\ last.exc = "none"
    /\ last.preTd # tagDigests
    /\ \E d \in DOMAIN digestTags : Cardinality(digestTags[d]) >= 2

IsSelectRepositories == last.op = "select_repositories"

\* The digests of the named repositories that a repository outside the names
\* references too.
SharedOutside(names) ==
    {d \in UNION {DigestsOf(names[i]) : i \in DOMAIN names} :
        Referencing(d) \ Range(names) # {}}

\* C2: select_repositories with raise_intersecting_repo raises
\* IntersectionError whenever a digest of a named repository is referenced by
\* a repository outside the names; the error carries such a digest and
\* exactly the repositories outside the names that reference it.
C2_RaisesOnSharedDigest ==
    (IsSelectRepositories /\ last.raiseRepo /\ SharedOutside(last.names) # {})
        => /\ last.out.exc = "IntersectionError"
           /\ last.out.items = "repos"
           /\ last.out.digest \in SharedOutside(last.names)
           /\ last.out.conflicting = Referencing(last.out.digest) \ Range(last.names)

\* A raise that names two repositories outside the names.
C2_Witness ==
    /\ IsSelectRepositories
    /\ last.raiseRepo
    /\ last.out.exc = "IntersectionError"
    /\ Cardinality(last.out.conflicting) = 2

\* C3: select_repositories without raise_intersecting_repo never raises and
\* returns exactly the digests of the named repositories that no repository
\* outside the names references.
C3_DropsSharedDigest ==
    (IsSelectRepositories /\ ~last.raiseRepo)
        => /\ last.out.exc = "none"
           /\ ReturnedDigests =
                 UNION {DigestsOf(last.names[i]) : i \in DOMAIN last.names}
                     \ SharedOutside(last.names)

\* A call that dropped a shared digest and returned another one.
C3_Witness ==
    /\ IsSelectRepositories
    /\ ~last.raiseRepo
    /\ SharedOutside(last.names) # {}
    /\ last.out.ret # <<>>

\* C4: in the result of select_repositories each digest appears once, with
\* the first repository in the order of names that references it, and the
\* entries follow the order of names.
C4_FirstRepositoryWins ==
    (IsSelectRepositories /\ last.out.exc = "none")
        => LET ret == last.out.ret
               names == last.names
               first(d) == CHOOSE i \in DOMAIN names :
                               /\ d \in DigestsOf(names[i])
                               /\ \A j \in 1..(i - 1) : d \notin DigestsOf(names[j])
           IN  /\ \A i, j \in DOMAIN ret : i # j => ret[i][2] # ret[j][2]
               /\ \A i \in DOMAIN ret :
                     /\ ret[i][2] \in DigestsOf(ret[i][1])
                     /\ ret[i][1] = names[first(ret[i][2])]
               /\ \A i, j \in DOMAIN ret :
                     i < j => FirstIndex(names, ret[i][1]) <= FirstIndex(names, ret[j][1])

\* Two named repositories share a digest, returned with the first of them,
\* and the second one has a digest of its own.
C4_Witness ==
    /\ IsSelectRepositories
    /\ last.out.exc = "none"
    /\ Len(last.names) = 2
    /\ last.names[1] # last.names[2]
    /\ Len(last.out.ret) = 2
    /\ last.out.ret[1][1] = last.names[1]
    /\ last.out.ret[1][2] \in DigestsOf(last.names[2])
    /\ last.out.ret[2][1] = last.names[2]

IsSelectTags == last.op = "select_tags"

\* A selector of the list sel is true of the tag t.
Matches(sel, t) ==
    \E i \in DOMAIN sel : LET r == TagFunc(sel[i], t) IN ~r.exc /\ r.val

\* The matched-tag set of a repository: its tags that match the tags
\* selectors, when it is listed in repos.
MatchedIn(r) ==
    IF r \in Range(last.repos) /\ r \in DOMAIN tagDigests
    THEN {t \in DOMAIN tagDigests[r] : Matches(last.tags, t)}
    ELSE {}

\* The match set: the repositories of repos with a matching tag.
MatchSet == {r \in Repos : MatchedIn(r) # {}}

\* The digests matched in phase 1.
CandidateDigests == UNION {{tagDigests[r][t] : t \in MatchedIn(r)} : r \in MatchSet}

\* The tags of r on d outside r's matched-tag set, and those that match an
\* exclude_tags selector.
Excess(r, d) == TagsOn(r, d) \ MatchedIn(r)

ExcludedOn(r, d) == {t \in TagsOn(r, d) : Matches(last.exclude, t)}

\* The candidates referenced by a repository outside the match set.
ForeignCandidates == {d \in CandidateDigests : Referencing(d) \ MatchSet # {}}

\* C5: select_tags with raise_intersecting_repo never returns normally when
\* a candidate digest is referenced by a repository outside the match set: it
\* raises IntersectionError with that repository's name and the digest,
\* whatever match_all_tags and raise_intersecting_tag are.
C5_RaisesOnForeignRepository ==
    (IsSelectTags /\ last.raiseRepo /\ ForeignCandidates # {})
        => /\ last.out.exc = "IntersectionError"
           /\ last.out.items = "repo"
           /\ last.out.digest \in ForeignCandidates
           /\ last.out.conflicting \subseteq Referencing(last.out.digest) \ MatchSet

\* C6: every digest select_tags returns is referenced only by repositories
\* of the match set, for every combination of the flags.
C6_ReturnedOnlyInMatchSet ==
    (IsSelectTags /\ last.out.exc = "none")
        => \A d \in ReturnedDigests : Referencing(d) \subseteq MatchSet

\* C7: with match_all_tags, every tag that points to a returned digest, in
\* every repository that references it, is in that repository's matched-tag
\* set.
C7_ReturnedTagsAllMatched ==
    (IsSelectTags /\ last.matchAll /\ last.out.exc = "none")
        => \A d \in ReturnedDigests : \A r \in Referencing(d) :
              TagsOn(r, d) \subseteq MatchedIn(r)

\* A digest of two repositories is returned and another candidate is dropped.
C7_Witness ==
    /\ IsSelectTags
    /\ last.matchAll
    /\ last.out.exc = "none"
    /\ \E d \in ReturnedDigests : Cardinality(Referencing(d)) = 2
    /\ CandidateDigests \ ReturnedDigests # {}

\* The candidates with a tag outside the matched-tag set of a matched
\* repository.
ExcessCandidates == {d \in CandidateDigests : \E r \in MatchSet : Excess(r, d) # {}}

\* C8 as stated: with match_all_tags, when a candidate digest has an excess
\* tag in a matched repository, select_tags raises IntersectionError with
\* exactly the excess tags and the digest if raise_intersecting_tag, and
\* otherwise drops the digest without raising.
C8_ExcessTagRaisesOrDrops ==
    (IsSelectTags /\ last.matchAll /\ ExcessCandidates # {})
        => IF last.raiseTag
           THEN /\ last.out.exc = "IntersectionError"
                /\ last.out.items = "tags"
                /\ last.out.digest \in ExcessCandidates
                /\ \E r \in MatchSet : last.out.conflicting = Excess(r, last.out.digest)
           ELSE /\ last.out.exc = "none"
                /\ ReturnedDigests \cap ExcessCandidates = {}

\* No candidate is referenced outside the match set or has an excluded tag.
NothingElseToReport ==
    /\ ForeignCandidates = {}
    /\ \A d \in CandidateDigests : \A r \in MatchSet : ExcludedOn(r, d) = {}

\* C8 as amended: with match_all_tags, a candidate with an excess tag in a
\* matched repository is never returned; without raise_intersecting_tag no
\* IntersectionError carries tags; with it, an IntersectionError that carries
\* tags carries a candidate and exactly its excess tags in one matched
\* repository, and it is raised whenever a candidate has an excess tag while
\* no candidate is referenced outside the match set or has an excluded tag.
C8_ExcessTagAmended ==
    (IsSelectTags /\ last.matchAll)
        => /\ last.out.exc = "none" => ReturnedDigests \cap ExcessCandidates = {}
           /\ ~last.raiseTag => last.out.items # "tags"
           /\ last.out.items = "tags"
                 => /\ last.out.digest \in ExcessCandidates
                    /\ \E r \in MatchSet :
                          /\ Excess(r, last.out.digest) # {}
                          /\ last.out.conflicting = Excess(r, last.out.digest)
           /\ (last.raiseTag /\ ExcessCandidates # {} /\ NothingElseToReport)
                 => last.out.items = "tags"

\* A raise that carries two excess tags.
C8_Witness ==
    /\ IsSelectTags
    /\ last.matchAll
    /\ last.raiseTag
    /\ NothingElseToReport
    /\ last.out.exc = "IntersectionError"
    /\ last.out.items = "tags"
    /\ Cardinality(last.out.conflicting) = 2

\* C9: select_tags never returns a digest that has, in a matched repository,
\* a tag matching an exclude_tags selector, with and without match_all_tags.
C9_NoExcludedTagReturned ==
    (IsSelectTags /\ last.out.exc = "none")
        => \A d \in ReturnedDigests : \A r \in MatchSet : ExcludedOn(r, d) = {}

\* C10: a candidate digest with a tag matching an exclude_tags selector never
\* makes select_tags raise IntersectionError.
C10_ExcludedNeverRaises ==
    (IsSelectTags /\ last.out.exc = "IntersectionError")
        => \A r \in MatchSet : ExcludedOn(r, last.out.digest) = {}

\* The tags of r that matched the tags selectors and point to d.
MatchedOn(r, d) == {t \in MatchedIn(r) : tagDigests[r][t] = d}

\* C11: select_tags lists a digest once, with the repository that comes
\* first in the caller's order of repos among those it is matched in.
C11_FirstInCallerOrder ==
    (IsSelectTags /\ last.out.exc = "none")
        => LET ret == last.out.ret
               repos == last.repos
           IN  \A i \in DOMAIN ret :
                  /\ \A j \in DOMAIN ret : j # i => ret[j][2] # ret[i][2]
                  /\ ret[i][1] \in Range(repos)
                  /\ MatchedOn(ret[i][1], ret[i][2]) # {}
                  /\ \A k \in 1..(FirstIndex(repos, ret[i][1]) - 1) :
                        MatchedOn(repos[k], ret[i][2]) = {}

Fwd(td) ==
    {x \in Repos \X Tags \X Digests :
        x[1] \in DOMAIN td /\ x[2] \in DOMAIN td[x[1]] /\ td[x[1]][x[2]] = x[3]}

Rev(dt) ==
    {x \in Repos \X Tags \X Digests : x[3] \in DOMAIN dt /\ <<x[1], x[2]>> \in dt[x[3]]}

\* The call recorded in `last` is op, and it returned.
Called(op) == last.op = op
CalledOk(op) == last.op = op /\ last.exc = "none"

\* C13: update_image(repo, tag, d) on a pair that maps to another digest d1
\* removes the pair from digestTags[d1], deleting the entry of d1 when it is
\* left empty, adds it to digestTags[d], sets tagDigests[repo][tag] to d and
\* leaves every other pair as it was.
C13_UpdateMovesPair ==
    (Called("update_image")
        /\ \E d1 \in Digests \ {last.args[3]} :
              <<last.args[1], last.args[2], d1>> \in Fwd(last.preTd))
        => LET r == last.args[1]
               t == last.args[2]
               d == last.args[3]
               d1 == last.preTd[r][t]
           IN  /\ last.exc = "none"
               /\ Fwd(tagDigests) = (Fwd(last.preTd) \ {<<r, t, d1>>}) \cup {<<r, t, d>>}
               /\ Rev(digestTags) = (Rev(last.preDt) \ {<<r, t, d1>>}) \cup {<<r, t, d>>}
               /\ DOMAIN tagDigests = DOMAIN last.preTd
               /\ d1 \in DOMAIN digestTags => digestTags[d1] # {}
               /\ DOMAIN digestTags \ {d1} = (DOMAIN last.preDt \cup {d}) \ {d1}

\* The pair moved to a digest that has pairs already, and the entry of the
\* digest it pointed to was deleted.
C13_Witness ==
    /\ Called("update_image")
    /\ IndexInvariant(last.preTd, last.preDt)
    /\ last.args[1] \in DOMAIN last.preTd
    /\ last.args[2] \in DOMAIN last.preTd[last.args[1]]
    /\ last.preTd[last.args[1]][last.args[2]] # last.args[3]
    /\ last.preTd[last.args[1]][last.args[2]] \notin DOMAIN digestTags
    /\ last.args[3] \in DOMAIN last.preDt
    /\ Cardinality(digestTags[last.args[3]]) = 2

\* C14: update_image returns False, leaving the index as it was, when the
\* pair maps to the given digest already, and returns True whenever the call
\* changed the index.
C14_ReturnsWhetherChanged ==
    CalledOk("update_image")
        => /\ <<last.args[1], last.args[2], last.args[3]>> \in Fwd(last.preTd)
                 => /\ last.ret = "False"
                    /\ tagDigests = last.preTd
                    /\ digestTags = last.preDt
           /\ (tagDigests # last.preTd \/ digestTags # last.preDt) => last.ret = "True"

\* C15: update_image(repo, tag, d) on a pair that is not in the index, the
\* repository being absent or present without the tag, completes without
\* error, and afterwards tagDigests[repo][tag] = d and (repo, tag) is in
\* digestTags[d].
C15_UpdateAddsNewPair ==
    (Called("update_image")
        /\ \A d1 \in Digests : <<last.args[1], last.args[2], d1>> \notin Fwd(last.preTd))
        => /\ last.exc = "none"
           /\ <<last.args[1], last.args[2], last.args[3]>> \in Fwd(tagDigests)
           /\ <<last.args[1], last.args[2], last.args[3]>> \in Rev(digestTags)

C17_RemoveTagFrame ==
    (Called("remove_tag") /\ IndexInvariant(last.preTd, last.preDt))
        => LET r == last.args[1]
               t == last.args[2]
           IN  /\ last.exc = "none"
               /\ Fwd(tagDigests) = {x \in Fwd(last.preTd) : <<x[1], x[2]>> # <<r, t>>}
               /\ Rev(digestTags) = {x \in Rev(last.preDt) : <<x[1], x[2]>> # <<r, t>>}
               /\ NoEmptyEntries(tagDigests, digestTags)
               /\ last.ret = (IF \E d \in Digests : <<r, t, d>> \in Fwd(last.preTd)
                              THEN "True" ELSE "False")

\* The last tag of a repository was removed, and its digest keeps a pair of
\* another repository.
C17_Witness ==
    /\ Called("remove_tag")
    /\ IndexInvariant(last.preTd, last.preDt)
    /\ last.ret = "True"
    /\ last.args[1] \notin DOMAIN tagDigests
    /\ last.preTd[last.args[1]][last.args[2]] \in DOMAIN digestTags

\* C18: remove_tag or remove_repository called a second time with the same
\* arguments returns False and leaves both maps as they were after the first
\* call.
C18_SecondRemovalIsNoOp ==
    ((Called("remove_tag") \/ Called("remove_repository")) /\ last.repeat)
        => /\ last.exc = "none"
           /\ last.ret = "False"
           /\ tagDigests = last.preTd
           /\ digestTags = last.preDt

\* The second of two removals of a repository that was in the index, which
\* holds another repository.
C18_Witness ==
    /\ Called("remove_repository")
    /\ last.repeat
    /\ last.first = "True"
    /\ last.ret = "False"
    /\ tagDigests # EmptyDict

\* C19: on an index that satisfies the invariant, remove_digests(ds) for
\* distinct digests of the index removes from tagDigests every pair that
\* pointed to a digest of ds, deletes the repositories left without tags and
\* the digestTags entries of ds, and leaves the tags that point to other
\* digests as they were.
C19_RemoveDigestsFrame ==
    (Called("remove_digests") /\ IndexInvariant(last.preTd, last.preDt)
        /\ Distinct(last.args[1]) /\ Range(last.args[1]) \subseteq DOMAIN last.preDt)
        => LET ds == Range(last.args[1])
           IN  /\ last.exc = "none"
               /\ Fwd(tagDigests) = {x \in Fwd(last.preTd) : x[3] \notin ds}
               /\ Rev(digestTags) = {x \in Rev(last.preDt) : x[3] \notin ds}
               /\ DOMAIN digestTags = DOMAIN last.preDt \ ds
               /\ NoEmptyEntries(tagDigests, digestTags)

\* A digest was removed from a repository that keeps a tag on another digest
\* and from a repository that it leaves without tags.
C19_Witness ==
    /\ Called("remove_digests")
    /\ IndexInvariant(last.preTd, last.preDt)
    /\ Len(last.args[1]) = 1
    /\ last.args[1][1] \in DOMAIN last.preDt
    /\ DOMAIN last.preTd \ DOMAIN tagDigests # {}
    /\ \E r \in DOMAIN tagDigests : DOMAIN tagDigests[r] # DOMAIN last.preTd[r]

\* C20: remove_digests raises when a digest of its argument has no entry in
\* digestTags, and then neither map has been modified.
C20_AbsentDigestFailsClean ==
    (Called("remove_digests") /\ Range(last.args[1]) \ DOMAIN last.preDt # {})
        => /\ last.exc # "none"
           /\ tagDigests = last.preTd
           /\ digestTags = last.preDt

\* The digest without entry comes after one that has pairs.
C20_Witness ==
    /\ Called("remove_digests")
    /\ Len(last.args[1]) = 2
    /\ last.args[1][1] \in DOMAIN last.preDt
    /\ last.args[1][2] \notin DOMAIN last.preDt
    /\ last.exc = "TypeError"

(***************************************************************************)
(* The tag matcher.  The versions of the tags and of the selectors are     *)
(* written out here token by token, so that the predicates are compared    *)
(* with a comparison of lists of numbers.                                  *)
(***************************************************************************)
NumericTags == {"1", "1.0", "1.01", "1.1", "1.1.0"}

\* The numeric tokens of a tag of numeric dot-separated tokens.
NumericTokens(t) ==
    CASE t = "1" -> <<1>>
      [] t = "1.0" -> <<1, 0>>
      [] t = "1.01" -> <<1, 1>>
      [] t = "1.1" -> <<1, 1>>
      [] t = "1.1.0" -> <<1, 1, 0>>

\* The operator and version of a string selector '<op><V>'; the operator
\* "none" for a string outside the grammar.
Grammar(s) ==
    CASE s = ">=1.1" -> [op |-> ">=", v |-> <<1, 1>>]
      [] s = "<=1.1" -> [op |-> "<=", v |-> <<1, 1>>]
      [] s = "<1.1" -> [op |-> "<", v |-> <<1, 1>>]
      [] s = ">1.0" -> [op |-> ">", v |-> <<1, 0>>]
      [] s = "==1.0" -> [op |-> "==", v |-> <<1, 0>>]
      [] OTHER -> [op |-> "none", v |-> <<>>]

\* a sorts before b token by token, a proper prefix sorting lower.
TokensLess(a, b) ==
    \E k \in 1..Len(b) :
        /\ k <= Len(a) + 1
        /\ \A i \in 1..(k - 1) : a[i] = b[i]
        /\ (k = Len(a) + 1 \/ a[k] < b[k])

Holds(op, a, b) ==
    CASE op = "==" -> a = b
      [] op = "<" -> TokensLess(a, b)
      [] op = "<=" -> TokensLess(a, b) \/ a = b
      [] op = ">" -> TokensLess(b, a)
      [] op = ">=" -> TokensLess(b, a) \/ a = b

\* C29: a selector list matches a tag iff one of its predicates returns true
\* for the tag; a predicate that raises TypeError counts as a non-match and
\* the predicates after it are still tried.
C29_AnyPredicateMatches ==
    last.op = "_any_tag_matches"
        => (last.ret <=> \E i \in DOMAIN last.values :
                            /\ ~TagFunc(last.values[i], last.tag).exc
                            /\ TagFunc(last.values[i], last.tag).val)

\* The first predicate raised TypeError and the second one matched.
C29_Witness ==
    /\ last.op = "_any_tag_matches"
    /\ Len(last.values) = 2
    /\ TagFunc(last.values[1], last.tag).exc
    /\ last.values[1].v = ">=1.1"
    /\ last.tag = "rc"
    /\ last.ret

\* C30: a string selector '<op><V>' matches a tag of numeric dot-separated
\* tokens exactly when version(tag) op V holds token by token, a proper
\* prefix sorting lower; a string outside the grammar matches the identical
\* tag only.
C30_VersionSelectorCompares ==
    (last.op = "_get_tag_func" /\ last.value.kind = "str")
        => LET g == Grammar(last.value.v)
           IN  IF g.op = "none" THEN last.out = Returned(last.value.v = last.tag)
               ELSE last.tag \in NumericTags
                       => last.out = Returned(Holds(g.op, NumericTokens(last.tag), g.v))

\* '<=1.1' applied to '1.01', equal to it as a version and lower as text.
C30_Witness ==
    /\ last.op = "_get_tag_func"
    /\ last.value = StrSel("<=1.1")
    /\ last.tag = "1.01"
    /\ last.out = Returned(TRUE)

(***************************************************************************)
(* Snapshots.                                                              *)
(***************************************************************************)
\* The maps of an index with the digests as their bytes, as a loaded
\* instance holds them.
AsBytes(td) == [r \in DOMAIN td |-> [t \in DOMAIN td[r] |-> DigestBytes(td[r][t])]]

PairsAsBytes(dt) ==
    [b \in {DigestBytes(d) : d \in DOMAIN dt} |->
        dt[CHOOSE d \in DOMAIN dt : DigestBytes(d) = b]]

\* C21: loads(dumps(c)) is an index whose tagDigests equals that of c, and
\* whose digestTags equals that of c when c satisfies the bidirectional
\* invariant.
C21_RoundTrip ==
    Called("dumps_loads")
        => /\ last.ret.exc = "none"
           /\ last.ret.td = AsBytes(tagDigests)
           /\ Bidirectional(tagDigests, digestTags)
                 => last.ret.dt = PairsAsBytes(digestTags)

\* An index of two repositories that share a digest is serialized and loaded.
C21_Witness ==
    /\ Called("dumps_loads")
    /\ Bidirectional(tagDigests, digestTags)
    /\ Cardinality(DOMAIN tagDigests) = 2
    /\ Cardinality(DOMAIN last.ret.dt) = 2
    /\ \E b \in DOMAIN last.ret.dt : Cardinality(last.ret.dt[b]) = 2

\* A decoded value is a string that starts with 'sha256:'.
HasSha256Prefix(v) ==
    v.kind = "string" /\ Len(v.chars) >= 7 /\ SubSeq(v.chars, 1, 7) = Sha256Prefix

\* The document is no object of objects, or one of its digest values does
\* not start with 'sha256:'.
Malformed(doc) ==
    \/ doc.kind # "object"
    \/ \E r \in DOMAIN doc.items : doc.items[r].kind # "object"
    \/ \E r \in DOMAIN doc.items :
          /\ doc.items[r].kind = "object"
          /\ \E t \in DOMAIN doc.items[r].items : ~HasSha256Prefix(doc.items[r].items[t])

\* C22: loading a snapshot that is no object of objects (a top level that is
\* no object, a repository mapped to a string, a number or a list), or that
\* holds a digest value not starting with 'sha256:', fails with ValueError,
\* and no index is produced: the query keeps the index it had.
C22_MalformedSnapshotFails ==
    (Called("loads") /\ Malformed(last.args[1]))
        => /\ last.exc = "ValueError"
           /\ tagDigests = last.preTd
           /\ digestTags = last.preDt
           /\ initialized = last.preInit

(***************************************************************************)
(* The query and the remover.                                              *)
(***************************************************************************)
\* The triples the registry reported during the call, without the tags
\* whose manifest lookup failed.
Reported(env) == {<<p[1], p[2], env.reg[p]>> : p \in (DOMAIN env.reg) \ env.noManifest}

\* C23: when refresh completes normally the index holds exactly the triples
\* the registry reported during that refresh, less the tags whose manifest
\* lookup failed, and nothing of its contents before, whatever calls came
\* before it.
C23_RefreshReplacesContents ==
    CalledOk("refresh")
        => /\ Fwd(tagDigests) = Reported(last.env)
           /\ Rev(digestTags) = Reported(last.env)

\* The pairs whose manifest the call looks up: refresh every listed pair,
\* update the listed pairs of its repositories whose tag matches a selector.
LookedUp ==
    IF last.op = "refresh" THEN DOMAIN last.env.reg
    ELSE {p \in DOMAIN last.env.reg :
             p[1] \in Range(last.args[1]) /\ AnyTagMatches(last.args[2], p[2])}

\* The index maps the pair p to the digest the registry reported for it.
Registered(p) ==
    /\ p[1] \in DOMAIN tagDigests
    /\ p[2] \in DOMAIN tagDigests[p[1]]
    /\ tagDigests[p[1]][p[2]] = last.env.reg[p]

\* C24: in refresh and in update, when the manifest lookup of one pair fails
\* with an HTTP error (and no other request fails), that tag alone is
\* skipped: the call completes normally and every other pair it looks up is
\* registered.
C24_FailedLookupSkipsOneTag ==
    ((Called("refresh") \/ Called("update"))
        /\ last.env.failing = "none"
        /\ last.env.noManifest \cap LookedUp # {})
        => /\ last.exc = "none"
           /\ \A p \in LookedUp \ last.env.noManifest : Registered(p)

\* The digest of a pair in the map td, "none" when the pair is not there.
DigestAt(td, p) ==
    IF p[1] \in DOMAIN td /\ p[2] \in DOMAIN td[p[1]] THEN td[p[1]][p[2]] ELSE "none"

\* C25: after update(repos, tags) completes, every pair the registry lists
\* for a repository of repos whose tag matches a selector and whose manifest
\* lookup succeeded maps to the reported digest, the pairs that were not in
\* the index before included; every other pair is as it was.
C25_UpdateSetsMatchingTags ==
    CalledOk("update")
        => /\ \A p \in LookedUp \ last.env.noManifest : Registered(p)
           /\ \A p \in (Repos \X Tags) \ (LookedUp \ last.env.noManifest) :
                 DigestAt(tagDigests, p) = DigestAt(last.preTd, p)

\* The tags of a repository in the map td.
TagMap(td, r) == IF r \in DOMAIN td THEN td[r] ELSE EmptyDict

\* C26: remove_repositories(names, raise_intersecting_repo=True) selects on
\* an index that satisfies the bidirectional invariant (the index of the
\* query, after the refresh a query makes first when it is not initialized)
\* and returns: no repository of names is in the index, no returned digest
\* is in digestTags, and the tags of every repository outside names map to
\* the digests they mapped to.
C26_RemoveRepositoriesFrame ==
    (CalledOk("remove_repositories") /\ last.args[2]
        /\ Bidirectional(last.info.td, last.info.dt))
        => /\ \A n \in Range(last.args[1]) : n \notin DOMAIN tagDigests
           /\ \A i \in DOMAIN last.ret : last.ret[i][2] \notin DOMAIN digestTags
           /\ \A r \in Repos \ Range(last.args[1]) :
                 TagMap(tagDigests, r) = TagMap(last.info.td, r)

\* C27: remove_tags(repos, tags) issues one delete_manifest(repository,
\* digest) call for each entry select_tags returned, removes those digests
\* from the index and returns the selection: with a selection that is not
\* empty it completes without error and no selected digest is in the index.
C27_RemoveTagsDeletesSelection ==
    (Called("remove_tags") /\ last.info.sel # <<>>)
        => /\ last.exc = "none"
           /\ last.info.deleted =
                 [i \in DOMAIN last.info.sel |->
                     <<last.info.sel[i][1], AsSha256(DigestBytes(last.info.sel[i][2]))>>]
           /\ \A i \in DOMAIN last.info.sel : last.info.sel[i][2] \notin DOMAIN digestTags
           /\ last.ret = last.info.sel

\* The pairs of the index in the repositories repos (all when repos is
\* empty, for None), sorted by repository and then by tag.
SortedPairs(td, repos) ==
    InOrder(PairSeq, {p \in Repos \X Tags :
                        /\ p[1] \in DOMAIN td /\ p[2] \in DOMAIN td[p[1]]
                        /\ repos = <<>> \/ p[1] \in Range(repos)})

\* C28: get_tag_names of the query returns every (repository, tag) pair of
\* the index, of the given repositories when repos is passed, sorted by
\* repository and then by tag; get_repo_names returns the sorted list of the
\* repositories that have a tag.
C28_NameLists ==
    /\ (Called("get_tag_names") /\ last.exc # "HTTPError")
          => /\ last.exc = "none"
             /\ last.ret = SortedPairs(tagDigests, last.args[1])
    /\ CalledOk("get_repo_names")
          => last.ret = InOrder(RepoSeq, {r \in DOMAIN tagDigests : DOMAIN tagDigests[r] # {}})


(***************************************************************************)
(* The lenient version comparator.                                         *)
(***************************************************************************)
\* Token x ranks below token y: numbers by value, strings as text, every
\* number below every string.
TokenLess(x, y) ==
    IF x.int /\ y.int THEN x.n < y.n
    ELSE IF ~x.int /\ ~y.int THEN StrCmp(x.s, y.s, 1) < 0
    ELSE x.int

\* Token list a sorts before token list b: at the first position where they
\* differ a has the lower token, or a has ended there.
VersionLess(a, b) ==
    \E k \in 1..Len(b) :
        /\ k <= Len(a) + 1
        /\ \A i \in 1..(k - 1) : a[i] = b[i]
        /\ (k = Len(a) + 1 \/ TokenLess(a[k], b[k]))

\* The sign a comparison of token lists a and b is to give.
VersionSign(a, b) ==
    IF a = b THEN 0 ELSE IF VersionLess(a, b) THEN -1 ELSE 1

\* C31: SortingVersion._cmp always returns -1, 0 or 1 and is a total,
\* antisymmetric and transitive order on token lists: 0 for equal lists
\* only, opposite signs in the two directions, numbers compared by value,
\* strings as text, a string above a number at the same position and a
\* proper prefix below the longer list.
C31_LenientOrder ==
    last.op = "_cmp"
        => /\ ~last.ret.none /\ last.ret.c \in {-1, 0, 1}
           /\ ~last.rev.none /\ last.rev.c = 0 - last.ret.c
           /\ (last.ret.c = 0 <=> last.self = last.other)
           /\ last.ret.c = VersionSign(last.self, last.other)
           /\ \A s \in VersionStrings :
                  LET third == LooseVersion(s)
                      bc == SortingVersionCmp(last.other, third)
                      ac == SortingVersionCmp(last.self, third)
                  IN  (last.ret.c <= 0 /\ ~bc.none /\ bc.c <= 0)
                          => (~ac.none /\ ac.c <= 0)

\* '1.c' against '1.0': equal first tokens, then a string against a number,
\* which list comparison refuses and the loop decides.
C31_Witness ==
    /\ last.op = "_cmp"
    /\ last.a = <<"1", ".", "c">>
    /\ last.b = <<"1", ".", "0">>
    /\ ListCmp(last.self, last.other, 1).exc
    /\ last.ret = CmpValue(1)
    /\ last.rev = CmpValue(-1)

(***************************************************************************)
(* The invariant of the index under the conditions of use of add_image and *)
(* remove_digests.                                                         *)
(***************************************************************************)
\* The call recorded in `last` respects the conditions: add_image on a pair
\* that is not in the index, remove_digests on distinct digests that all have
\* an entry.
WithinConditions ==
    /\ Called("add_image")
          => ~(last.args[1] \in DOMAIN last.preTd
                  /\ last.args[2] \in DOMAIN last.preTd[last.args[1]])
    /\ Called("remove_digests")
          => /\ Distinct(last.args[1])
             /\ Range(last.args[1]) \subseteq DOMAIN last.preDt

\* C32: the bidirectional invariant and the no-empty-entry rule hold on the
\* empty index, and every call that respects the conditions (add_image on a
\* pair not in the index, remove_digests on distinct digests of the index)
\* and is made on an index that satisfies them leaves an index that
\* satisfies them, whether the call returns or raises.  By induction they
\* hold after every call of a sequence of such calls.
C32_ConditionsKeepInvariant ==
    IF last.op = "none" THEN IndexInvariant(tagDigests, digestTags)
    ELSE (IndexInvariant(last.preTd, last.preDt) /\ WithinConditions)
            => IndexInvariant(tagDigests, digestTags)

\* update_image raised after it added the pair of a new repository, at the
\* end of a sequence of calls that all respected the conditions.
C32_Witness ==
    /\ disciplined
    /\ Called("update_image")
    /\ last.exc = "AttributeError"
    /\ WithinConditions
    /\ IndexInvariant(last.preTd, last.preDt)
    /\ last.preTd # EmptyDict
    /\ tagDigests # last.preTd

(***************************************************************************)
(* The remover: what it asks the registry to delete and what it does to    *)
(* the index.                                                              *)
(***************************************************************************)
IsRemoval == last.op \in {"remove_repositories", "remove_tags"}

\* The outcome of the refresh the selection of the call in `last` made
\* first: on an initialized query the index as the call found it.
SelectedOn == LazyRefresh(last.preTd, last.preDt, last.preInit, last.env)

\* C33 as stated: when the selection of remove_repositories or remove_tags
\* raises IntersectionError, no delete_manifest call has been made and the
\* index is as it was before the call.
C33_ConflictLeavesIndex ==
    (IsRemoval /\ last.exc = "IntersectionError")
        => /\ last.info.deleted = <<>>
           /\ tagDigests = last.preTd
           /\ digestTags = last.preDt

\* C33 as amended: when the selection raises IntersectionError, no
\* delete_manifest call has been made and the index is the one the
\* selection was made on: the index before the call on a query that is
\* initialized, the refreshed index on a query that is not.
C33_ConflictLeavesSelectionIndex ==
    (IsRemoval /\ last.exc = "IntersectionError")
        => /\ last.info.deleted = <<>>
           /\ tagDigests = SelectedOn.td
           /\ digestTags = SelectedOn.dt
           /\ last.preInit => (tagDigests = last.preTd /\ digestTags = last.preDt)

\* On an initialized query the repository named shares a digest with a
\* repository that is not named and has a digest of its own, which is still
\* in the index.
C33_Witness ==
    /\ Called("remove_repositories")
    /\ last.exc = "IntersectionError"
    /\ last.preInit
    /\ \E d \in DOMAIN digestTags :
           \A p \in digestTags[d] : p[1] = last.args[1][1]
    /\ last.info.deleted = <<>>

\* A delete_manifest call of the remove_repositories call in `last` raised.
DeleteRaised == Called("remove_repositories") /\ last.args[3] # 0

\* C34 as stated: remove_repositories modifies the index only after every
\* delete_manifest call has returned; when one raises, the index is as it
\* was before the call, whatever the calls before it deleted.
C34_FailedDeleteLeavesIndex ==
    Called("remove_repositories")
        => /\ (tagDigests # last.preTd \/ digestTags # last.preDt)
                 => last.info.deleted = Deletes(last.info.sel)
           /\ DeleteRaised
                 => /\ last.exc = "HTTPError"
                    /\ tagDigests = last.preTd
                    /\ digestTags = last.preDt

\* C34 as amended: the index the selection was made on (on an initialized
\* query, the index before the call) is modified only after every
\* delete_manifest call has returned; when one raises, the index is that
\* index, whatever the calls before it deleted.
C34_FailedDeleteLeavesSelectionIndex ==
    (Called("remove_repositories") /\ SelectedOn.exc = "none")
        => /\ (tagDigests # SelectedOn.td \/ digestTags # SelectedOn.dt)
                 => last.info.deleted = Deletes(last.info.sel)
           /\ DeleteRaised
                 => /\ last.exc = "HTTPError"
                    /\ tagDigests = SelectedOn.td
                    /\ digestTags = SelectedOn.dt
                    /\ last.preInit
                          => (tagDigests = last.preTd /\ digestTags = last.preDt)

\* On an initialized query the second delete_manifest call raised: the
\* first manifest is deleted and its digest is still in the index.
C34_Witness ==
    /\ DeleteRaised
    /\ last.preInit
    /\ last.args[3] = 2
    /\ Len(last.info.deleted) = 1
    /\ last.info.sel[1][2] \in DOMAIN digestTags
    /\ last.exc = "HTTPError"

\* The (repository, tag, digest) triples the remove_repositories call in
\* `last` removed from the index its selection was made on.
RemovedTriples == Fwd(last.info.td) \ Fwd(tagDigests)

\* The delete_manifest call for digest d in repository r.
DeleteCall(r, d) == <<r, AsSha256(DigestBytes(d))>>

\* C35: remove_repositories removes a (repository, tag) pair from the index
\* only if it called delete_manifest for that repository and the digest of
\* the tag: no repository loses a tag without a deletion requested for it.
C35_RemovedOnlyIfDeletedThere ==
    Called("remove_repositories")
        => \A x \in RemovedTriples : DeleteCall(x[1], x[3]) \in Range(last.info.deleted)

(***************************************************************************)
(* The read operations.                                                    *)
(***************************************************************************)
ReadOperations ==
    {"get_repo_names", "get_tag_names", "get_digests", "get_digest_repos",
     "get_grouped_tags", "select_repositories", "select_tags"}

\* C36: a call of get_repo_names, get_tag_names, get_digests,
\* get_digest_repos or get_grouped_tags on the cache, or of
\* select_repositories or select_tags on an initialized query, leaves
\* tagDigests and digestTags as they were, whatever names or digests it is
\* given.
C36_ReadsLeaveIndex ==
    [][(initialized /\ last'.op \in ReadOperations)
          => (tagDigests' = tagDigests /\ digestTags' = digestTags)]_vars

(***************************************************************************)
(* Loading a snapshot.                                                     *)
(***************************************************************************)
\* C37: the index that loads returns for a document it accepts satisfies
\* the bidirectional invariant and holds no repository with an empty tag
\* map (and no digest with an empty set of pairs).
C37_LoadedIndexInvariant ==
    CalledOk("loads") => IndexInvariant(tagDigests, digestTags)

(***************************************************************************)
(* The refresh a query makes by itself.  select_repositories and           *)
(* select_tags are the first step of remove_repositories and remove_tags.  *)
(***************************************************************************)
RefreshingFirst == last.op \in {"remove_repositories", "remove_tags", "get_repo_names"}

\* C38: select_repositories, select_tags and get_repo_names refresh first
\* exactly when the query is not initialized, which it is once a refresh or
\* a load has completed: on an initialized query they ask the registry
\* nothing and the query stays initialized; on a query that is not, the
\* refresh runs, the call raises what the refresh raises, and the query is
\* initialized iff the refresh completed.  A refresh that raises leaves the
\* query uninitialized.
C38_RefreshesUntilCompleted ==
    /\ (RefreshingFirst /\ last.preInit)
          => /\ last.env = NoEnv
             /\ initialized
             /\ SelectedOn = QOutcome(last.preTd, last.preDt, TRUE, "None", "none")
    /\ (RefreshingFirst /\ ~last.preInit)
          => /\ SelectedOn = RefreshOp(last.preTd, last.preDt, FALSE, last.env)
             /\ initialized <=> SelectedOn.exc = "none"
             /\ SelectedOn.exc # "none"
                   => /\ last.exc = SelectedOn.exc
                      /\ tagDigests = SelectedOn.td
                      /\ digestTags = SelectedOn.dt
    /\ (Called("refresh") /\ last.exc # "none") => ~initialized

====
